---- MODULE Spec2Model ----
(***************************************************************************)
(* Ownership model of the RustaCUDA memory containers over the native      *)
(* allocators: raw allocation functions (memory/malloc.rs), DeviceBox and  *)
(* DeviceBuffer (memory/device/), UnifiedBox (memory/unified.rs),          *)
(* LockedBox and LockedBuffer (memory/locked.rs) and the Stream handle     *)
(* (stream.rs).  Every library function is an operator over a "world"      *)
(* (the native heap, the contents of device memory and the log of native   *)
(* calls made so far); every action applies one library function to the    *)
(* host program's variables.                                               *)
(***************************************************************************)
EXTENDS Integers, Sequences, FiniteSets, Bags, TLC

VARIABLES heap, dmem, ops, received, locals, raw, last, status, pc, pinned

vars == <<heap, dmem, ops, received, locals, raw, last, status, pc, pinned>>

---------------------------------------------------------------------------
(* Bounds of the model.                                                    *)

\* number of native resources (allocations and stream handles) the driver
\* can hand out before it reports out-of-memory
MaxAlloc == 2
\* number of host variables that can hold a container or a raw pointer
MaxSlots == 2
\* longest host slice a caller passes
MaxLen == 2
\* width of usize in bits (the arithmetic is the source's, at this width)
UsizeBits == 12

UsizeMax == 2^UsizeBits - 1

Allocs == 1..MaxAlloc

---------------------------------------------------------------------------
(* Pointers.  Null is address 0; native resource a (an allocation, or the  *)
(* object behind a CUstream handle) lives at address 64 * a, and its       *)
(* elements at the addresses behind that;                                  *)
(* NonNull::dangling() is the alignment of T, a small non-zero address     *)
(* that is no allocation.                                                  *)

Null == 0

Addr(a) == 64 * a

IsAlloc(p) == p > 0 /\ p % 64 = 0 /\ (p \div 64) \in Allocs

AllocOf(p) == p \div 64

\* an address inside a native resource, and the number of elements of size
\* esz that lie before it there
Inside(p) == p > 0 /\ (p \div 64) \in Allocs

Offset(p, esz) == IF esz = 0 THEN 0 ELSE (p % 64) \div esz

\* element types: a zero-sized type and u64, named by size_of::<T>()
ElemSizes == {0, 8}

\* mem::align_of::<T>() for the element types
align_of(esz) == IF esz = 8 THEN 8 ELSE 1

\* ptr::NonNull::dangling().as_ptr()
dangling(esz) == align_of(esz)

is_null(p) == p = Null

---------------------------------------------------------------------------
(* Results.  "Success" is the native success code; the other outcomes are  *)
(* native error codes.  A CudaResult is "Ok" or an error: a native code    *)
(* wrapped unchanged by toResult, or the local InvalidMemoryAllocation.    *)

NativeErrors == {"LaunchFailure"}

Outcomes == {"Success"} \cup NativeErrors

\* outcomes of the native calls one library call makes, in call order, for
\* a library call that makes at most n native calls
OutcomeSeqs(n) == [1..n -> Outcomes]

\* ToResult::toResult
toResult(code) == IF code = "Success" THEN "Ok" ELSE code


NativeCall(fn, arg, res) == [fn |-> fn, arg |-> arg, res |-> res]

\* the outcome the environment gives to the next native call of this world
NextOutcome(w, oc) ==
    IF Len(w.calls) + 1 \in DOMAIN oc THEN oc[Len(w.calls) + 1] ELSE "Success"

Min(S) == CHOOSE x \in S : \A y \in S : x <= y

\* native cudaMalloc / cudaMallocManaged / cudaMallocHost: a fresh live
\* allocation, or an error code (always an error when memory is exhausted)
NativeAlloc(w, fn, space, bytes, oc) ==
    LET o == NextOutcome(w, oc)
        unused == {a \in Allocs : w.heap[a].st = "unalloc"}
    IN  IF o = "Success" /\ unused # {}
        THEN LET a == Min(unused)
             IN  [w |-> [w EXCEPT !.heap[a] = [st |-> "live", space |-> space, refreed |-> FALSE, consumed |-> FALSE],
                                  !.calls = Append(@, NativeCall(fn, bytes, "Success"))],
                  code |-> "Success", ptr |-> Addr(a)]
        ELSE LET e == IF o = "Success" THEN "MemoryAllocation" ELSE o
             IN  [w |-> [w EXCEPT !.calls = Append(@, NativeCall(fn, bytes, e))],
                  code |-> e, ptr |-> Null]

\* native cudaFree / cudaFreeHost / cuStreamDestroy of a non-null address.  A live allocation
\* is released on success and stays live on failure; an address that is no
\* live allocation is refused, and a released one is marked as freed again.
\* (An entry's `consumed` is history: a box holding the allocation was
\* consumed by into_device / into_unified / into_raw.)
NativeFree(w, fn, p, oc) ==
    LET o == NextOutcome(w, oc)
    IN  IF IsAlloc(p) /\ w.heap[AllocOf(p)].st = "live"
        THEN [w |-> [w EXCEPT !.heap = IF o = "Success"
                                        THEN [@ EXCEPT ![AllocOf(p)].st = "freed"]
                                        ELSE @,
                              !.mem = IF o = "Success"
                                      THEN [@ EXCEPT ![AllocOf(p)] = <<>>]
                                      ELSE @,
                              !.calls = Append(@, NativeCall(fn, p, o))],
              code |-> o]
        ELSE [w |-> [w EXCEPT !.heap = IF IsAlloc(p) /\ @[AllocOf(p)].st = "freed"
                                        THEN [@ EXCEPT ![AllocOf(p)].refreed = TRUE]
                                        ELSE @,
                              !.calls = Append(@, NativeCall(fn, p, "InvalidDevicePointer"))],
              code |-> "InvalidDevicePointer"]

---------------------------------------------------------------------------
(* memory/malloc.rs                                                        *)

None == -1

\* usize::checked_mul
checked_mul(a, b) == IF a * b > UsizeMax THEN None ELSE a * b

\* Option::unwrap_or
unwrap_or(opt, dflt) == IF opt = None THEN dflt ELSE opt

\* faulty variant: the byte count is multiplied without the overflow check
cuda_malloc_wrapping(w, count, esz, oc) ==
    LET size == (count * esz) % (UsizeMax + 1)
    IN  IF size = 0
        THEN [w |-> w, res |-> "InvalidValue", ptr |-> Null]
        ELSE LET r == NativeAlloc(w, "cudaMalloc", "device", size, oc)
             IN  [w |-> r.w, res |-> toResult(r.code), ptr |-> r.ptr]

cuda_malloc(w, count, esz, oc) ==
    LET size == unwrap_or(checked_mul(count, esz), 0)
    IN  IF size = 0
        THEN [w |-> w, res |-> "InvalidValue", ptr |-> Null]
        ELSE LET r == NativeAlloc(w, "cudaMalloc", "device", size, oc)
             IN  [w |-> r.w, res |-> toResult(r.code), ptr |-> r.ptr]

\* faulty variant: a byte count of zero goes to the native allocator
cuda_malloc_unified_unchecked(w, count, esz, oc) ==
    LET size == unwrap_or(checked_mul(count, esz), 0)
        r == NativeAlloc(w, "cudaMallocManaged", "unified", size, oc)
    IN  [w |-> r.w, res |-> toResult(r.code), ptr |-> r.ptr]

cuda_malloc_unified(w, count, esz, oc) ==
    LET size == unwrap_or(checked_mul(count, esz), 0)
    IN  IF size = 0
        THEN [w |-> w, res |-> "InvalidValue", ptr |-> Null]
        ELSE LET r == NativeAlloc(w, "cudaMallocManaged", "unified", size, oc)
             IN  [w |-> r.w, res |-> toResult(r.code), ptr |-> r.ptr]

cuda_malloc_locked(w, count, esz, oc) ==
    LET size == unwrap_or(checked_mul(count, esz), 0)
    IN  IF size = 0
        THEN [w |-> w, res |-> "InvalidValue", ptr |-> Null]
        ELSE LET r == NativeAlloc(w, "cudaMallocHost", "locked", size, oc)
             IN  [w |-> r.w, res |-> toResult(r.code), ptr |-> r.ptr]

cuda_free(w, p, oc) ==
    IF is_null(p)
    THEN [w |-> w, res |-> "InvalidValue"]
    ELSE LET r == NativeFree(w, "cudaFree", p, oc)
         IN  [w |-> r.w, res |-> toResult(r.code)]

\* faulty variant: a null pointer goes to the native free
cuda_free_locked_unchecked(w, p, oc) ==
    LET r == NativeFree(w, "cudaFreeHost", p, oc)
    IN  [w |-> r.w, res |-> toResult(r.code)]

cuda_free_locked(w, p, oc) ==
    IF is_null(p)
    THEN [w |-> w, res |-> "InvalidValue"]
    ELSE LET r == NativeFree(w, "cudaFreeHost", p, oc)
         IN  [w |-> r.w, res |-> toResult(r.code)]

\* free_unified of the specification: null is refused with InvalidValue,
\* anything else goes to the native free and its error is propagated
cuda_free_unified(w, p, oc) ==
    IF is_null(p)
    THEN [w |-> w, res |-> "InvalidValue"]
    ELSE LET r == NativeFree(w, "cudaFree", p, oc)
         IN  [w |-> r.w, res |-> toResult(r.code)]

---------------------------------------------------------------------------
(* Containers.  A container is its kind, its pointer field, its capacity   *)
(* (buffers) and size_of::<T>() of its element type.                       *)

NoContainer == [kind |-> "none", ptr |-> Null, buf |-> Null, inner |-> Null, cap |-> 0, esz |-> 0]

\* a box: one pointer field `ptr`
Box(kind, ptr, esz) ==
    [kind |-> kind, ptr |-> ptr, buf |-> Null, inner |-> Null, cap |-> 1, esz |-> esz]

\* a buffer: pointer field `buf` and `capacity`
Buffer(kind, buf, capacity, esz) ==
    [kind |-> kind, ptr |-> Null, buf |-> buf, inner |-> Null, cap |-> capacity, esz |-> esz]

\* a Stream: the native handle `inner`
Stream(inner) ==
    [kind |-> "Stream", ptr |-> Null, buf |-> Null, inner |-> inner, cap |-> 0, esz |-> 0]

IsBox(c) == c.kind \in {"DeviceBox", "UnifiedBox", "LockedBox", "UBox"}

IsBuffer(c) == c.kind \in {"DeviceBuffer", "LockedBuffer"}

\* the pointer field of a container, whichever it is
PtrOf(c) == IF IsBuffer(c) THEN c.buf ELSE IF c.kind = "Stream" THEN c.inner ELSE c.ptr

\* what a library call hands back: the world after it, its CudaResult, the
\* container it returns (if any) and whether it panicked
Return(w, res, out, panic) == [w |-> w, res |-> res, out |-> out, panic |-> panic]

\* Device memory.  w.mem[a] holds the elements written to allocation a so
\* far, from its first element on; an element never written is
\* uninitialized.
Uninit == -1

\* the first n elements of allocation a, as a copy out of it reads them
Load(w, a, n) ==
    [i \in 1..n |-> IF i \in DOMAIN w.mem[a] THEN w.mem[a][i] ELSE Uninit]

\* allocation a after elems were written over its first elements
Store(w, a, elems) ==
    [i \in 1..(IF Len(elems) > Len(w.mem[a]) THEN Len(elems) ELSE Len(w.mem[a])) |->
        IF i <= Len(elems) THEN elems[i] ELSE w.mem[a][i]]

\* the n elements of size esz at device address p
LoadFrom(w, p, n, esz) ==
    LET k == Offset(p, esz)
        all == Load(w, AllocOf(p), k + n)
    IN  [i \in 1..n |-> all[k + i]]

\* the allocation of device address p after elems were written at p
StoreFrom(w, p, elems, esz) ==
    Store(w, AllocOf(p), Load(w, AllocOf(p), Offset(p, esz)) \o elems)

\* a device address a native copy can use: it lies in a live allocation
Mapped(w, p) == Inside(p) /\ w.heap[AllocOf(p)].st = "live"

\* number of elements of size esz in a payload of `bytes` bytes
Elems(bytes, esz) == bytes \div esz

\* the first n elements at a host address where the elements of src lie:
\* what lies behind them is not the slice's
HostLoad(src, n) == [i \in 1..n |-> IF i <= Len(src) THEN src[i] ELSE Uninit]

\* native cuMemcpyHtoD_v2(dst, src, bytes): the host elements src go to the
\* device address dst.  A failed copy leaves the destination as it was.
cuMemcpyHtoD(w, dst, src, bytes, esz, oc) ==
    LET o == IF Mapped(w, dst) THEN NextOutcome(w, oc) ELSE "InvalidValue"
        n == Elems(bytes, esz)
    IN  [w |-> [w EXCEPT !.mem = IF o = "Success"
                                 THEN [@ EXCEPT ![AllocOf(dst)] =
                                          StoreFrom(w, dst, HostLoad(src, n), esz)]
                                 ELSE @,
                         !.calls = Append(@, NativeCall("cuMemcpyHtoD", bytes, o))],
         code |-> o]

\* native cuMemcpyDtoH_v2(dst, src, bytes): the elements at the device
\* address src go to the host elements dst, which is returned as `host`
cuMemcpyDtoH(w, dst, src, bytes, esz, oc) ==
    LET o == IF Mapped(w, src) THEN NextOutcome(w, oc) ELSE "InvalidValue"
        n == Elems(bytes, esz)
    IN  [w |-> [w EXCEPT !.calls = Append(@, NativeCall("cuMemcpyDtoH", bytes, o))],
         code |-> o,
         host |-> IF o = "Success"
                  THEN [i \in 1..Len(dst) |->
                           IF i <= n THEN LoadFrom(w, src, n, esz)[i] ELSE dst[i]]
                  ELSE dst]

\* native cuMemcpyDtoD_v2(dst, src, bytes) between two device addresses
cuMemcpyDtoD(w, dst, src, bytes, esz, oc) ==
    LET o == IF Mapped(w, dst) /\ Mapped(w, src) THEN NextOutcome(w, oc) ELSE "InvalidValue"
        n == Elems(bytes, esz)
    IN  [w |-> [w EXCEPT !.mem = IF o = "Success"
                                 THEN [@ EXCEPT ![AllocOf(dst)] =
                                          StoreFrom(w, dst, LoadFrom(w, src, n, esz), esz)]
                                 ELSE @,
                         !.calls = Append(@, NativeCall("cuMemcpyDtoD", bytes, o))],
         code |-> o]

\* native cuMemsetD8_v2(dst, 0, bytes): zero bytes, that is zero elements
cuMemsetD8(w, dst, bytes, esz, oc) ==
    LET o == IF Mapped(w, dst) THEN NextOutcome(w, oc) ELSE "InvalidValue"
        n == Elems(bytes, esz)
    IN  [w |-> [w EXCEPT !.mem = IF o = "Success"
                                 THEN [@ EXCEPT ![AllocOf(dst)] =
                                          StoreFrom(w, dst, [i \in 1..n |-> 0], esz)]
                                 ELSE @,
                         !.calls = Append(@, NativeCall("cuMemsetD8", bytes, o))],
         code |-> o]

---------------------------------------------------------------------------
(* memory/device/device_box.rs                                             *)

\* impl Drop for DeviceBox
Drop_DeviceBox(w, self, oc) ==
    IF is_null(self.ptr)
    THEN [w |-> w, panic |-> FALSE]
    ELSE LET r == cuda_free(w, self.ptr, oc)
         IN  [w |-> r.w, panic |-> r.res # "Ok"]

\* CopyDestination<T> for DeviceBox<T>: copy_from
DeviceBox_copy_from(w, self, val, oc) ==
    LET size == self.esz
    IN  IF size # 0
        THEN LET r == cuMemcpyHtoD(w, self.ptr, <<val>>, size, self.esz, oc)
             IN  [w |-> r.w, res |-> toResult(r.code)]
        ELSE [w |-> w, res |-> "Ok"]

\* CopyDestination<T> for DeviceBox<T>: copy_to; `host` is *val afterwards
DeviceBox_copy_to(w, self, val, oc) ==
    LET size == self.esz
    IN  IF size # 0
        THEN LET r == cuMemcpyDtoH(w, <<val>>, self.ptr, size, self.esz, oc)
             IN  [w |-> r.w, res |-> toResult(r.code), host |-> r.host[1]]
        ELSE [w |-> w, res |-> "Ok", host |-> val]

DeviceBox_uninitialized(w, esz, oc) ==
    IF esz = 0
    THEN Return(w, "Ok", Box("DeviceBox", Null, esz), FALSE)
    ELSE LET r == cuda_malloc(w, 1, esz, oc)
         IN  IF r.res # "Ok"
             THEN Return(r.w, r.res, NoContainer, FALSE)
             ELSE Return(r.w, "Ok", Box("DeviceBox", r.ptr, esz), FALSE)

\* DeviceBox::new: a failed copy returns through `?`, which drops dev_box
DeviceBox_new(w, val, esz, oc) ==
    LET u == DeviceBox_uninitialized(w, esz, oc)
    IN  IF u.res # "Ok"
        THEN Return(u.w, u.res, NoContainer, FALSE)
        ELSE LET c == DeviceBox_copy_from(u.w, u.out, val, oc)
             IN  IF c.res # "Ok"
                 THEN LET d == Drop_DeviceBox(c.w, u.out, oc)
                      IN  Return(d.w, c.res, NoContainer, d.panic)
                 ELSE Return(c.w, "Ok", u.out, FALSE)

\* DeviceBox::zeroed: a failed memset returns through `?`, which drops
\* new_box
DeviceBox_zeroed(w, esz, oc) ==
    LET u == DeviceBox_uninitialized(w, esz, oc)
    IN  IF u.res # "Ok"
        THEN Return(u.w, u.res, NoContainer, FALSE)
        ELSE IF esz # 0
        THEN LET m == cuMemsetD8(u.w, u.out.ptr, esz, esz, oc)
             IN  IF toResult(m.code) # "Ok"
                 THEN LET d == Drop_DeviceBox(m.w, u.out, oc)
                      IN  Return(d.w, toResult(m.code), NoContainer, d.panic)
                 ELSE Return(m.w, "Ok", u.out, FALSE)
        ELSE Return(u.w, "Ok", u.out, FALSE)

\* DeviceBox::from_raw: DevicePointer::wrap(ptr)
DeviceBox_from_raw(ptr, esz) == Box("DeviceBox", ptr, esz)

DeviceBox_from_device(ptr, esz) == Box("DeviceBox", ptr, esz)

\* faulty variant: the pointer is copied out and the box, not forgotten,
\* goes out of scope
DeviceBox_into_device_dropping(w, b, oc) ==
    LET d == Drop_DeviceBox(w, b, oc)
    IN  [w |-> d.w, ptr |-> b.ptr, panic |-> d.panic]

\* DeviceBox::into_device: the pointer is taken out and the box forgotten
DeviceBox_into_device(w, b, oc) ==
    [w |-> w, ptr |-> b.ptr, panic |-> FALSE]

\* DeviceBox::drop: the local dev_box, its pointer replaced by null, is
\* forgotten on success and dropped at the end of the function otherwise
DeviceBox_drop(w, dev_box, oc) ==
    IF is_null(dev_box.ptr)
    THEN LET d == Drop_DeviceBox(w, dev_box, oc)
         IN  Return(d.w, "Ok", NoContainer, d.panic)
    ELSE LET ptr == dev_box.ptr
             r == cuda_free(w, ptr, oc)
         IN  IF r.res = "Ok"
             THEN Return(r.w, "Ok", NoContainer, FALSE)
             ELSE LET d == Drop_DeviceBox(r.w, [dev_box EXCEPT !.ptr = Null], oc)
                  IN  Return(d.w, r.res, Box("DeviceBox", ptr, dev_box.esz), d.panic)

\* CopyDestination<DeviceBox<T>> for DeviceBox<T>: copy_from
DeviceBox_copy_from_box(w, self, val, oc) ==
    LET size == self.esz
    IN  IF size # 0
        THEN LET r == cuMemcpyDtoD(w, self.ptr, val.ptr, size, self.esz, oc)
             IN  [w |-> r.w, res |-> toResult(r.code)]
        ELSE [w |-> w, res |-> "Ok"]

\* CopyDestination<DeviceBox<T>> for DeviceBox<T>: copy_to
DeviceBox_copy_to_box(w, self, val, oc) ==
    LET size == self.esz
    IN  IF size # 0
        THEN LET r == cuMemcpyDtoD(w, val.ptr, self.ptr, size, self.esz, oc)
             IN  [w |-> r.w, res |-> toResult(r.code)]
        ELSE [w |-> w, res |-> "Ok"]

---------------------------------------------------------------------------
(* memory/device.rs: DeviceSlice, a view of `len` elements at a device     *)
(* address.                                                                *)

DeviceSlice(ptr, len, esz) == [ptr |-> ptr, len |-> len, esz |-> esz]

\* what a slicing call hands back: the views it returns, in order, or a
\* panic
Views(views) == [views |-> views, panic |-> FALSE]

OutOfRange == [views |-> <<>>, panic |-> TRUE]

\* faulty variant: the right half begins mid bytes, not mid elements, behind
\* the start
DeviceSlice_split_at_bytes(self, mid) ==
    IF mid > self.len
    THEN OutOfRange
    ELSE Views(<<DeviceSlice(self.ptr, mid, self.esz),
                 DeviceSlice(self.ptr + mid, self.len - mid, self.esz)>>)

\* DeviceSlice::split_at: <[T]>::split_at(mid) on the slice inside, which
\* panics when mid > len
DeviceSlice_split_at(self, mid) ==
    IF mid > self.len
    THEN OutOfRange
    ELSE Views(<<DeviceSlice(self.ptr, mid, self.esz),
                 DeviceSlice(self.ptr + mid * self.esz, self.len - mid, self.esz)>>)

\* DeviceSlice::split_at_mut: <[T]>::split_at_mut(mid)
DeviceSlice_split_at_mut(self, mid) ==
    IF mid > self.len
    THEN OutOfRange
    ELSE Views(<<DeviceSlice(self.ptr, mid, self.esz),
                 DeviceSlice(self.ptr + mid * self.esz, self.len - mid, self.esz)>>)

\* DeviceChunks / DeviceChunksMut: the iterator <[T]>::chunks returns, that
\* is the rest of the slice and the chunk size
DeviceChunks(v, chunk_size) == [v |-> v, chunk_size |-> chunk_size]

\* DeviceSlice::chunks and chunks_mut: <[T]>::chunks(chunk_size), which
\* panics when chunk_size is 0
DeviceSlice_chunks(self, chunk_size) ==
    IF chunk_size = 0
    THEN [iter |-> DeviceChunks(self, 0), panic |-> TRUE]
    ELSE [iter |-> DeviceChunks(self, chunk_size), panic |-> FALSE]

\* faulty variant: a last chunk shorter than chunk_size is left out
DeviceChunks_next_exact(it) ==
    IF it.v.len < it.chunk_size
    THEN [item |-> DeviceSlice(Null, 0, 0), some |-> FALSE, iter |-> it]
    ELSE LET halves == DeviceSlice_split_at(it.v, it.chunk_size).views
         IN  [item |-> halves[1], some |-> TRUE, iter |-> DeviceChunks(halves[2], it.chunk_size)]

\* Iterator::next of DeviceChunks and DeviceChunksMut: the next chunk is
\* split off the front of the rest
DeviceChunks_next(it) ==
    IF it.v.len = 0
    THEN [item |-> DeviceSlice(Null, 0, 0), some |-> FALSE, iter |-> it]
    ELSE LET chunksz == IF it.v.len < it.chunk_size THEN it.v.len ELSE it.chunk_size
             halves == DeviceSlice_split_at(it.v, chunksz).views
         IN  [item |-> halves[1], some |-> TRUE, iter |-> DeviceChunks(halves[2], it.chunk_size)]

\* the views an iterator yields until it returns None
RECURSIVE Collect(_)
Collect(it) ==
    LET r == DeviceChunks_next(it)
    IN  IF r.some THEN <<r.item>> \o Collect(r.iter) ELSE <<>>

\* the six range forms a DeviceSlice can be indexed with
RangeForms ==
    {"Range", "RangeFull", "RangeFrom", "RangeInclusive", "RangeTo", "RangeToInclusive"}

\* the first index and the index behind the last that a range built from a
\* and b denotes on a slice of length n
RangeOf(form, a, b, n) ==
    CASE form = "Range" -> <<a, b>>
      [] form = "RangeFull" -> <<0, n>>
      [] form = "RangeFrom" -> <<a, n>>
      [] form = "RangeInclusive" -> <<a, b + 1>>
      [] form = "RangeTo" -> <<0, b>>
      [] form = "RangeToInclusive" -> <<0, b + 1>>

\* faulty variant: the view begins where the slice begins
DeviceSlice_index_front(self, form, a, b) ==
    LET r == RangeOf(form, a, b, self.len)
    IN  IF r[1] > r[2] \/ r[2] > self.len
        THEN OutOfRange
        ELSE Views(<<DeviceSlice(self.ptr, r[2] - r[1], self.esz)>>)

\* Index / IndexMut for DeviceSlice (impl_index!): <[T]>::index(range) on
\* the slice inside, which panics when the range does not lie in it
DeviceSlice_index(self, form, a, b) ==
    LET r == RangeOf(form, a, b, self.len)
    IN  IF r[1] > r[2] \/ r[2] > self.len
        THEN OutOfRange
        ELSE Views(<<DeviceSlice(self.ptr + r[1] * self.esz, r[2] - r[1], self.esz)>>)

\* what a copy hands back: the world after it, its CudaResult, the host
\* destination afterwards and whether it panicked
Copied(w, res, host, panic) == [w |-> w, res |-> res, host |-> host, panic |-> panic]

\* the result slot of a call that unwound instead of returning
Unwound == "Unwound"

\* faulty variant: the lengths are not compared
DeviceSlice_copy_from_unasserted(w, self, val, oc) ==
    LET size == self.esz * self.len
    IN  IF size # 0
        THEN LET r == cuMemcpyHtoD(w, self.ptr, val, size, self.esz, oc)
             IN  Copied(r.w, toResult(r.code), <<>>, FALSE)
        ELSE Copied(w, "Ok", <<>>, FALSE)

\* CopyDestination<I> for DeviceSlice<T>: copy_from a host slice
DeviceSlice_copy_from(w, self, val, oc) ==
    IF ~(self.len = Len(val))
    THEN Copied(w, Unwound, <<>>, TRUE)
    ELSE LET size == self.esz * self.len
         IN  IF size # 0
             THEN LET r == cuMemcpyHtoD(w, self.ptr, val, size, self.esz, oc)
                  IN  Copied(r.w, toResult(r.code), <<>>, FALSE)
             ELSE Copied(w, "Ok", <<>>, FALSE)

\* faulty variant: the device-to-device primitive is given the host slice's
\* place, so nothing reaches the host
DeviceSlice_copy_to_nowhere(w, self, val, oc) ==
    IF ~(self.len = Len(val))
    THEN Copied(w, Unwound, val, TRUE)
    ELSE LET size == self.esz * self.len
         IN  IF size # 0
             THEN LET r == cuMemcpyDtoD(w, self.ptr, self.ptr, size, self.esz, oc)
                  IN  Copied(r.w, toResult(r.code), val, FALSE)
             ELSE Copied(w, "Ok", val, FALSE)

\* CopyDestination<I> for DeviceSlice<T>: copy_to a host slice
DeviceSlice_copy_to(w, self, val, oc) ==
    IF ~(self.len = Len(val))
    THEN Copied(w, Unwound, val, TRUE)
    ELSE LET size == self.esz * self.len
         IN  IF size # 0
             THEN LET r == cuMemcpyDtoH(w, val, self.ptr, size, self.esz, oc)
                  IN  Copied(r.w, toResult(r.code), r.host, FALSE)
             ELSE Copied(w, "Ok", val, FALSE)

\* CopyDestination<DeviceSlice<T>> for DeviceSlice<T>: copy_from
DeviceSlice_copy_from_slice(w, self, val, oc) ==
    IF ~(self.len = val.len)
    THEN Copied(w, Unwound, <<>>, TRUE)
    ELSE LET size == self.esz * self.len
         IN  IF size # 0
             THEN LET r == cuMemcpyDtoD(w, self.ptr, val.ptr, size, self.esz, oc)
                  IN  Copied(r.w, toResult(r.code), <<>>, FALSE)
             ELSE Copied(w, "Ok", <<>>, FALSE)

\* faulty variant: a payload of zero bytes goes to the native copy
DeviceSlice_copy_to_slice_unguarded(w, self, val, oc) ==
    IF ~(self.len = val.len)
    THEN Copied(w, Unwound, <<>>, TRUE)
    ELSE LET size == self.esz * self.len
             r == [w |-> [w EXCEPT !.calls =
                            Append(@, NativeCall("cuMemcpyDtoD", size, NextOutcome(w, oc)))],
                   code |-> NextOutcome(w, oc)]
         IN  Copied(r.w, toResult(r.code), <<>>, FALSE)

\* faulty variant: the copy goes from val to self
DeviceSlice_copy_to_slice_reversed(w, self, val, oc) ==
    IF ~(self.len = val.len)
    THEN Copied(w, Unwound, <<>>, TRUE)
    ELSE LET size == self.esz * self.len
         IN  IF size # 0
             THEN LET r == cuMemcpyDtoD(w, self.ptr, val.ptr, size, self.esz, oc)
                  IN  Copied(r.w, toResult(r.code), <<>>, FALSE)
             ELSE Copied(w, "Ok", <<>>, FALSE)

\* CopyDestination<DeviceSlice<T>> for DeviceSlice<T>: copy_to
DeviceSlice_copy_to_slice(w, self, val, oc) ==
    IF ~(self.len = val.len)
    THEN Copied(w, Unwound, <<>>, TRUE)
    ELSE LET size == self.esz * self.len
         IN  IF size # 0
             THEN LET r == cuMemcpyDtoD(w, val.ptr, self.ptr, size, self.esz, oc)
                  IN  Copied(r.w, toResult(r.code), <<>>, FALSE)
             ELSE Copied(w, "Ok", <<>>, FALSE)

---------------------------------------------------------------------------
(* memory/device/device_buffer.rs                                          *)

\* impl Drop for DeviceBuffer
Drop_DeviceBuffer(w, self, oc) ==
    IF is_null(self.buf)
    THEN [w |-> w, panic |-> FALSE]
    ELSE IF self.cap > 0 /\ self.esz > 0
         THEN LET r == cuda_free(w, self.buf, oc)
              IN  [w |-> r.w, panic |-> r.res # "Ok"]
         ELSE [w |-> w, panic |-> FALSE]

\* DeviceBuffer::uninitialized: the byte count is what cuda_malloc is given
DeviceBuffer_uninitialized(w, size, esz, oc) ==
    LET bytes == checked_mul(size, esz)
    IN  IF bytes = None
        THEN Return(w, "InvalidMemoryAllocation", NoContainer, FALSE)
        ELSE IF bytes > 0
             THEN LET r == cuda_malloc(w, bytes, esz, oc)
                  IN  IF r.res # "Ok"
                      THEN Return(r.w, r.res, NoContainer, FALSE)
                      ELSE Return(r.w, "Ok", Buffer("DeviceBuffer", r.ptr, size, esz), FALSE)
             ELSE Return(w, "Ok", Buffer("DeviceBuffer", dangling(esz), size, esz), FALSE)

\* DeviceBuffer::zeroed: a failed memset returns through `?`; the pointer
\* is a plain DevicePointer, so nothing is dropped
DeviceBuffer_zeroed(w, size, esz, oc) ==
    LET bytes == checked_mul(size, esz)
    IN  IF bytes = None
        THEN Return(w, "InvalidMemoryAllocation", NoContainer, FALSE)
        ELSE IF bytes > 0
             THEN LET r == cuda_malloc(w, bytes, esz, oc)
                  IN  IF r.res # "Ok"
                      THEN Return(r.w, r.res, NoContainer, FALSE)
                      ELSE LET m == cuMemsetD8(r.w, r.ptr, size * esz, esz, oc)
                           IN  IF m.code # "Success"
                               THEN Return(m.w, toResult(m.code), NoContainer, FALSE)
                               ELSE Return(m.w, "Ok", Buffer("DeviceBuffer", r.ptr, size, esz), FALSE)
             ELSE Return(w, "Ok", Buffer("DeviceBuffer", dangling(esz), size, esz), FALSE)

\* Deref / DerefMut for DeviceBuffer: the slice of all its elements
deref(self) == DeviceSlice(self.buf, self.cap, self.esz)

\* DeviceBuffer::from_raw_parts
DeviceBuffer_from_raw_parts(ptr, capacity, esz) == Buffer("DeviceBuffer", ptr, capacity, esz)

\* DeviceBuffer::from_slice: a failed copy returns through `?`, which drops
\* uninit
DeviceBuffer_from_slice(w, slice, esz, oc) ==
    LET u == DeviceBuffer_uninitialized(w, Len(slice), esz, oc)
    IN  IF u.res # "Ok"
        THEN Return(u.w, u.res, NoContainer, FALSE)
        ELSE LET c == DeviceSlice_copy_from(u.w, deref(u.out), slice, oc)
             IN  IF c.res # "Ok"
                 THEN LET d == Drop_DeviceBuffer(c.w, u.out, oc)
                      IN  Return(d.w, c.res, NoContainer, c.panic \/ d.panic)
                 ELSE Return(c.w, "Ok", u.out, FALSE)

\* faulty variant: a failed free is unwrapped as the destructor does
DeviceBuffer_drop_expect(w, dev_buf, oc) ==
    LET d == Drop_DeviceBuffer(w, dev_buf, oc)
    IN  Return(d.w, "Ok", NoContainer, d.panic)

\* DeviceBuffer::drop
DeviceBuffer_drop(w, dev_buf, oc) ==
    IF is_null(dev_buf.buf)
    THEN LET d == Drop_DeviceBuffer(w, dev_buf, oc)
         IN  Return(d.w, "Ok", NoContainer, d.panic)
    ELSE IF dev_buf.cap > 0 /\ dev_buf.esz > 0
         THEN LET capacity == dev_buf.cap
                  ptr == dev_buf.buf
                  r == cuda_free(w, ptr, oc)
              IN  IF r.res = "Ok"
                  THEN Return(r.w, "Ok", NoContainer, FALSE)
                  ELSE LET d == Drop_DeviceBuffer(r.w, [dev_buf EXCEPT !.buf = Null], oc)
                       IN  Return(d.w, r.res, Buffer("DeviceBuffer", ptr, capacity, dev_buf.esz), d.panic)
         ELSE LET d == Drop_DeviceBuffer(w, dev_buf, oc)
              IN  Return(d.w, "Ok", NoContainer, d.panic)

---------------------------------------------------------------------------
(* References made from raw pointers (`&*p`, `&mut *p`).  A reference made *)
(* from a null pointer is undefined behaviour; what happens is what the    *)
(* build does with it: the debug build checks the pointer and aborts the   *)
(* process, the optimized build goes on with the reference.                *)

Builds == {"debug", "optimized"}

RefAborts(p, build) == is_null(p) /\ build = "debug"

---------------------------------------------------------------------------
(* memory/unified.rs                                                       *)

\* impl Drop for UnifiedBox
Drop_UnifiedBox(w, self, oc) ==
    IF ~is_null(self.ptr)
    THEN LET r == cuda_free_unified(w, self.ptr, oc)
         IN  [w |-> r.w, panic |-> r.res # "Ok"]
    ELSE [w |-> w, panic |-> FALSE]

\* faulty variant: no special case for a zero-sized type
UnifiedBox_uninitialized_unguarded(w, esz, oc) ==
    LET r == cuda_malloc_unified(w, 1, esz, oc)
    IN  IF r.res # "Ok"
        THEN Return(r.w, r.res, NoContainer, FALSE)
        ELSE Return(r.w, "Ok", Box("UnifiedBox", r.ptr, esz), FALSE)

UnifiedBox_uninitialized(w, esz, oc) ==
    IF esz = 0
    THEN Return(w, "Ok", Box("UnifiedBox", Null, esz), FALSE)
    ELSE LET r == cuda_malloc_unified(w, 1, esz, oc)
         IN  IF r.res # "Ok"
             THEN Return(r.w, r.res, NoContainer, FALSE)
             ELSE Return(r.w, "Ok", Box("UnifiedBox", r.ptr, esz), FALSE)

\* UnifiedBox::new: a null box for a zero-sized type; otherwise
\* uninitialized()?, then `*ubox = val` through the box's pointer
UnifiedBox_new(w, val, esz, oc) ==
    IF esz = 0
    THEN Return(w, "Ok", Box("UnifiedBox", Null, esz), FALSE)
    ELSE LET r == UnifiedBox_uninitialized(w, esz, oc)
         IN  IF r.res # "Ok"
             THEN r
             ELSE [r EXCEPT !.w.mem[AllocOf(r.out.ptr)] =
                               StoreFrom(r.w, r.out.ptr, <<val>>, esz)]

\* Deref for UnifiedBox, `&*self.ptr.as_raw()`: the value behind the
\* pointer; a zero-sized type has one value
Deref_Box(w, self) ==
    IF self.esz = 0 \/ ~IsAlloc(self.ptr) THEN 0 ELSE Load(w, AllocOf(self.ptr), 1)[1]

\* what a comparison gives: its value, or the process aborted
Compared(val, abort) == [val |-> val, abort |-> abort]

\* PartialEq and PartialOrd for UnifiedBox: PartialEq::eq(&**self, &**other),
\* PartialOrd::lt(&**self, &**other); both boxes are dereferenced
UnifiedBox_eq(w, self, other, build) ==
    IF RefAborts(self.ptr, build) \/ RefAborts(other.ptr, build)
    THEN Compared(FALSE, TRUE)
    ELSE Compared(Deref_Box(w, self) = Deref_Box(w, other), FALSE)

UnifiedBox_lt(w, self, other, build) ==
    IF RefAborts(self.ptr, build) \/ RefAborts(other.ptr, build)
    THEN Compared(FALSE, TRUE)
    ELSE Compared(Deref_Box(w, self) < Deref_Box(w, other), FALSE)

\* UnifiedBox::from_raw: UnifiedPointer::wrap(ptr)
UnifiedBox_from_raw(ptr, esz) == Box("UnifiedBox", ptr, esz)

UnifiedBox_from_unified(ptr, esz) == Box("UnifiedBox", ptr, esz)

UnifiedBox_into_unified(w, b, oc) ==
    [w |-> w, ptr |-> b.ptr, panic |-> FALSE]

\* UnifiedBox::leak: `&mut *UnifiedBox::into_unified(b).as_raw_mut()`
UnifiedBox_leak(w, b, build, oc) ==
    LET r == UnifiedBox_into_unified(w, b, oc)
    IN  [w |-> r.w, ptr |-> r.ptr, panic |-> r.panic, abort |-> RefAborts(r.ptr, build)]

---------------------------------------------------------------------------
(* memory/ubox.rs                                                          *)

\* impl Drop for UBox: cudaFree(..).toResult().unwrap() of a non-null pointer
Drop_UBox(w, self, oc) ==
    IF ~is_null(self.ptr)
    THEN LET r == NativeFree(w, "cudaFree", self.ptr, oc)
         IN  [w |-> r.w, panic |-> toResult(r.code) # "Ok"]
    ELSE [w |-> w, panic |-> FALSE]

\* UBox::new: nothing is allocated for a zero-sized type; the value is
\* written through the host pointer
UBox_new(w, val, esz, oc) ==
    IF esz = 0
    THEN Return(w, "Ok", Box("UBox", Null, esz), FALSE)
    ELSE LET r == NativeAlloc(w, "cudaMallocManaged", "unified", esz, oc)
         IN  IF toResult(r.code) # "Ok"
             THEN Return(r.w, toResult(r.code), NoContainer, FALSE)
             ELSE Return([r.w EXCEPT !.mem[AllocOf(r.ptr)] =
                                        StoreFrom(r.w, r.ptr, <<val>>, esz)],
                         "Ok", Box("UBox", r.ptr, esz), FALSE)

UBox_from_raw(ptr, esz) == Box("UBox", ptr, esz)

\* UBox::into_raw: `b.ptr` is returned, and b, which the function owns,
\* goes out of scope at its end, so its destructor runs
UBox_into_raw(w, b, oc) ==
    LET d == Drop_UBox(w, b, oc)
    IN  [w |-> d.w, ptr |-> b.ptr, panic |-> d.panic]

\* UBox::leak: `&mut *UBox::into_raw(b)`; the reference is built once
\* into_raw has returned
UBox_leak(w, b, build, oc) ==
    LET r == UBox_into_raw(w, b, oc)
    IN  [w |-> r.w, ptr |-> r.ptr, panic |-> r.panic,
         abort |-> ~r.panic /\ RefAborts(r.ptr, build)]

\* #[derive(PartialEq, PartialOrd)] for UBox: the fields are compared, and
\* the one field is the pointer `ptr`, which is not dereferenced
UBox_eq(w, self, other, build) == Compared(self.ptr = other.ptr, FALSE)

UBox_lt(w, self, other, build) == Compared(self.ptr < other.ptr, FALSE)

\* #[derive(Clone)] for UBox: the clone has the same `ptr`
UBox_clone(self) == Box("UBox", self.ptr, self.esz)

---------------------------------------------------------------------------
(* memory/locked.rs                                                        *)

\* impl Drop for LockedBox
Drop_LockedBox(w, self, oc) ==
    IF is_null(self.ptr)
    THEN [w |-> w, panic |-> FALSE]
    ELSE LET r == cuda_free_locked(w, self.ptr, oc)
         IN  [w |-> r.w, panic |-> r.res # "Ok"]

LockedBox_uninitialized(w, esz, oc) ==
    IF esz = 0
    THEN Return(w, "Ok", Box("LockedBox", Null, esz), FALSE)
    ELSE LET r == cuda_malloc_locked(w, 1, esz, oc)
         IN  IF r.res # "Ok"
             THEN Return(r.w, r.res, NoContainer, FALSE)
             ELSE Return(r.w, "Ok", Box("LockedBox", r.ptr, esz), FALSE)

\* LockedBox::new: ptr::write of the value through the host pointer
LockedBox_new(w, esz, oc) == LockedBox_uninitialized(w, esz, oc)

LockedBox_from_raw(ptr, esz) == Box("LockedBox", ptr, esz)

\* faulty variant: the pointer is copied out and the box, not forgotten,
\* goes out of scope
LockedBox_into_raw_dropping(w, b, oc) ==
    LET d == Drop_LockedBox(w, b, oc)
    IN  [w |-> d.w, ptr |-> b.ptr, panic |-> d.panic]

LockedBox_into_raw(w, b, oc) ==
    [w |-> w, ptr |-> b.ptr, panic |-> FALSE]

\* LockedBox::leak: `&mut *LockedBox::into_raw(b)`
LockedBox_leak(w, b, build, oc) ==
    LET r == LockedBox_into_raw(w, b, oc)
    IN  [w |-> r.w, ptr |-> r.ptr, panic |-> r.panic, abort |-> RefAborts(r.ptr, build)]

\* LockedBox::drop
LockedBox_drop(w, locked_box, oc) ==
    IF is_null(locked_box.ptr)
    THEN LET d == Drop_LockedBox(w, locked_box, oc)
         IN  Return(d.w, "Ok", NoContainer, d.panic)
    ELSE LET ptr == locked_box.ptr
             r == cuda_free_locked(w, ptr, oc)
         IN  IF r.res = "Ok"
             THEN Return(r.w, "Ok", NoContainer, FALSE)
             ELSE LET d == Drop_LockedBox(r.w, [locked_box EXCEPT !.ptr = Null], oc)
                  IN  Return(d.w, r.res, Box("LockedBox", ptr, locked_box.esz), d.panic)

\* faulty variant: the sentinel of an empty buffer goes to the free
Drop_LockedBuffer_unguarded(w, self, oc) ==
    IF is_null(self.buf)
    THEN [w |-> w, panic |-> FALSE]
    ELSE LET r == cuda_free_locked(w, self.buf, oc)
         IN  [w |-> r.w, panic |-> r.res # "Ok"]

\* impl Drop for LockedBuffer
Drop_LockedBuffer(w, self, oc) ==
    IF is_null(self.buf)
    THEN [w |-> w, panic |-> FALSE]
    ELSE IF self.cap > 0 /\ self.esz > 0
         THEN LET r == cuda_free_locked(w, self.buf, oc)
              IN  [w |-> r.w, panic |-> r.res # "Ok"]
         ELSE [w |-> w, panic |-> FALSE]

\* LockedBuffer::uninitialized: no size check of its own, the count goes
\* to cuda_malloc_locked
LockedBuffer_uninitialized(w, size, esz, oc) ==
    IF size > 0 /\ esz > 0
    THEN LET r == cuda_malloc_locked(w, size, esz, oc)
         IN  IF r.res # "Ok"
             THEN Return(r.w, r.res, NoContainer, FALSE)
             ELSE Return(r.w, "Ok", Buffer("LockedBuffer", r.ptr, size, esz), FALSE)
    ELSE Return(w, "Ok", Buffer("LockedBuffer", dangling(esz), size, esz), FALSE)

\* LockedBuffer::new: the clones of `value` are host writes
LockedBuffer_new(w, size, esz, oc) == LockedBuffer_uninitialized(w, size, esz, oc)

\* LockedBuffer::from_slice: uninitialized(slice.len())?, then the clones
\* of the slice's elements are host writes
LockedBuffer_from_slice(w, slice, esz, oc) ==
    LockedBuffer_uninitialized(w, Len(slice), esz, oc)

\* LockedBuffer::from_raw_parts
LockedBuffer_from_raw_parts(ptr, size, esz) == Buffer("LockedBuffer", ptr, size, esz)

\* LockedBuffer::drop
LockedBuffer_drop(w, buf, oc) ==
    IF is_null(buf.buf)
    THEN LET d == Drop_LockedBuffer(w, buf, oc)
         IN  Return(d.w, "Ok", NoContainer, d.panic)
    ELSE IF buf.cap > 0 /\ buf.esz > 0
         THEN LET capacity == buf.cap
                  ptr == buf.buf
                  r == cuda_free_locked(w, ptr, oc)
              IN  IF r.res = "Ok"
                  THEN Return(r.w, "Ok", NoContainer, FALSE)
                  ELSE LET d == Drop_LockedBuffer(r.w, [buf EXCEPT !.buf = Null], oc)
                       IN  Return(d.w, r.res, Buffer("LockedBuffer", ptr, capacity, buf.esz), d.panic)
         ELSE LET d == Drop_LockedBuffer(w, buf, oc)
              IN  Return(d.w, "Ok", NoContainer, d.panic)

---------------------------------------------------------------------------
(* stream.rs                                                               *)

\* native cuStreamCreateWithPriority: a fresh live handle or an error code
NativeStreamCreate(w, oc) ==
    LET o == NextOutcome(w, oc)
        unused == {a \in Allocs : w.heap[a].st = "unalloc"}
    IN  IF o = "Success" /\ unused # {}
        THEN LET a == Min(unused)
             IN  [w |-> [w EXCEPT !.heap[a] = [st |-> "live", space |-> "stream", refreed |-> FALSE, consumed |-> FALSE],
                                  !.calls = Append(@, NativeCall("cuStreamCreateWithPriority", 0, "Success"))],
                  code |-> "Success", handle |-> Addr(a)]
        ELSE LET e == IF o = "Success" THEN "MemoryAllocation" ELSE o
             IN  [w |-> [w EXCEPT !.calls = Append(@, NativeCall("cuStreamCreateWithPriority", 0, e))],
                  code |-> e, handle |-> Null]

\* faulty variant: the handle stays in the stream, and the destructor gives
\* it to the destroy call once more
Drop_Stream_again(w, self, oc) ==
    IF is_null(self.inner)
    THEN [w |-> w, panic |-> FALSE]
    ELSE LET r == NativeFree(w, "cuStreamDestroy", self.inner, oc)
             again == NativeFree(r.w, "cuStreamDestroy", self.inner, oc)
         IN  [w |-> again.w, panic |-> toResult(r.code) # "Ok"]

\* faulty variant: the result of the destroy call is discarded
Drop_Stream_ignoring(w, self, oc) ==
    IF is_null(self.inner)
    THEN [w |-> w, panic |-> FALSE]
    ELSE LET r == NativeFree(w, "cuStreamDestroy", self.inner, oc)
         IN  [w |-> r.w, panic |-> FALSE]

\* impl Drop for Stream: the handle goes to cuStreamDestroy_v2
Drop_Stream(w, self, oc) ==
    IF is_null(self.inner)
    THEN [w |-> w, panic |-> FALSE]
    ELSE LET r == NativeFree(w, "cuStreamDestroy", self.inner, oc)
         IN  [w |-> r.w, panic |-> toResult(r.code) # "Ok"]

\* faulty variant: the stream handed back after a failed destroy is the one
\* whose handle was taken out
Stream_drop_emptied(w, stream, oc) ==
    IF is_null(stream.inner)
    THEN Return(w, "Ok", NoContainer, FALSE)
    ELSE LET r == NativeFree(w, "cuStreamDestroy", stream.inner, oc)
         IN  IF toResult(r.code) = "Ok"
             THEN Return(r.w, "Ok", NoContainer, FALSE)
             ELSE Return(r.w, toResult(r.code), Stream(Null), FALSE)

\* Stream::drop of the specification, after Module::drop and Event::drop:
\* the handle is taken out of the stream and destroyed; on success the
\* stream is forgotten, on failure a stream holding the handle is handed
\* back with the error and the emptied one goes out of scope
Stream_drop(w, stream, oc) ==
    IF is_null(stream.inner)
    THEN Return(w, "Ok", NoContainer, FALSE)
    ELSE LET inner == stream.inner
             r == NativeFree(w, "cuStreamDestroy", inner, oc)
         IN  IF toResult(r.code) = "Ok"
             THEN Return(r.w, "Ok", NoContainer, FALSE)
             ELSE LET d == Drop_Stream(r.w, Stream(Null), oc)
                  IN  Return(d.w, toResult(r.code), Stream(inner), d.panic)

\* Stream::new: a failed create returns through `?`, dropping the local
\* stream whose handle is still null
Stream_new(w, oc) ==
    LET r == NativeStreamCreate(w, oc)
    IN  IF toResult(r.code) # "Ok"
        THEN LET d == Drop_Stream(r.w, Stream(Null), oc)
             IN  Return(d.w, toResult(r.code), NoContainer, d.panic)
        ELSE Return(r.w, "Ok", Stream(r.handle), FALSE)

\* An operation a native stream was given: the Stream it was enqueued
\* through (`on`, its handle), the native stream it went to (`at`), what
\* it is (device work, that is a kernel or a copy whose data is not
\* followed, a copy whose data is followed, or a host callback) and
\* how far the device is with it; `env` is what the closure of a callback
\* captured, `ok` whether the device completed the operation without a
\* driver-level failure, and `status` and `seen` are what a callback was
\* invoked with: the status of the stream and the captured values.  For a
\* copy whose data is followed, `env` is the copy (CopyEnv), `moved` the
\* elements the device has transferred, and `touched` whether the caller
\* has used the source or the destination since the call.
NoEnv == <<>>

\* an asynchronous copy from the host: the device slice it writes to and
\* the source's elements as they were when the call was made
CopyEnv(dst, src) == [dst |-> dst, src |-> src]

Op(on, at, kind, env) ==
    [on |-> on, at |-> at, kind |-> kind, st |-> "queued", env |-> env,
     ok |-> TRUE, status |-> "none", seen |-> NoEnv, moved |-> {}, touched |-> FALSE]

\* an enqueueing native call on hStream: on success the operation joins the
\* work of that native stream
ValidStream(w, hStream) ==
    \/ is_null(hStream)
    \/ /\ IsAlloc(hStream)
       /\ w.heap[AllocOf(hStream)].st = "live"
       /\ w.heap[AllocOf(hStream)].space = "stream"

NativeEnqueue(w, fn, on, hStream, kind, env, oc) ==
    LET o == IF ValidStream(w, hStream) THEN NextOutcome(w, oc) ELSE "InvalidHandle"
    IN  [w |-> [w EXCEPT !.ops = IF o = "Success"
                                 THEN Append(@, Op(on, hStream, kind, env))
                                 ELSE @,
                         !.calls = Append(@, NativeCall(fn, hStream, o))],
         code |-> o]

\* the operations of native stream hStream the device has not completed
Pending(w, hStream) ==
    {i \in DOMAIN w.ops : w.ops[i].at = hStream /\ w.ops[i].st # "done"}

\* native cuStreamSynchronize(hStream): once the work of hStream is
\* completed (`wait` is what it still waits for) it returns success, or the
\* error of work that failed; an error of its own it returns at once
cuStreamSynchronize(w, hStream, oc) ==
    LET e == IF ValidStream(w, hStream) THEN NextOutcome(w, oc) ELSE "InvalidHandle"
        failed == \E i \in DOMAIN w.ops : w.ops[i].at = hStream /\ ~w.ops[i].ok
        o == IF e = "Success" /\ failed THEN "LaunchFailure" ELSE e
    IN  [w |-> [w EXCEPT !.calls = Append(@, NativeCall("cuStreamSynchronize", hStream, o))],
         code |-> o,
         wait |-> IF e = "Success" THEN Pending(w, hStream) ELSE {}]

\* faulty variant: the result is Ok without a native call
Stream_synchronize_unawaited(w, self, oc) ==
    [w |-> w, res |-> "Ok", wait |-> {}]

\* faulty variant: the call joins the whole context, that is the work of
\* every stream
Stream_synchronize_context(w, self, oc) ==
    LET r == cuStreamSynchronize(w, self.inner, oc)
    IN  [w |-> r.w, res |-> toResult(r.code),
         wait |-> IF ValidStream(w, self.inner) /\ NextOutcome(w, oc) = "Success"
                  THEN {i \in DOMAIN w.ops : w.ops[i].st # "done"}
                  ELSE {}]

\* Stream::synchronize
Stream_synchronize(w, self, oc) ==
    LET r == cuStreamSynchronize(w, self.inner, oc)
    IN  [w |-> r.w, res |-> toResult(r.code), wait |-> r.wait]

\* faulty variant: the kernel goes to the legacy default stream
Stream_launch_default(w, self, oc) ==
    LET r == NativeEnqueue(w, "cuLaunchKernel", self.inner, Null, "work", NoEnv, oc)
    IN  [w |-> r.w, res |-> toResult(r.code)]

\* Stream::launch: cuLaunchKernel on self.inner
Stream_launch(w, self, oc) ==
    LET r == NativeEnqueue(w, "cuLaunchKernel", self.inner, self.inner, "work", NoEnv, oc)
    IN  [w |-> r.w, res |-> toResult(r.code)]

\* a closure behind the raw pointer of its box, and back
Box_into_raw(callback) == [boxed |-> callback]

Box_from_raw(p) == p.boxed

\* faulty variant: the call joins the stream before it returns
Stream_add_callback_joined(w, self, callback, oc) ==
    LET r == NativeEnqueue(w, "cuStreamAddCallback", self.inner, self.inner, "callback",
                           Box_into_raw(callback), oc)
    IN  [w |-> [r.w EXCEPT !.ops = [i \in DOMAIN @ |->
                                      IF @[i].at = self.inner
                                      THEN [@[i] EXCEPT !.st = "done"] ELSE @[i]]],
         res |-> toResult(r.code)]

\* faulty variant: a closure added while the stream has work goes to the
\* legacy default stream, not behind that work
Stream_add_callback_scattered(w, self, callback, oc) ==
    LET hStream == IF Pending(w, self.inner) = {} THEN self.inner ELSE Null
        r == NativeEnqueue(w, "cuStreamAddCallback", self.inner, hStream, "callback",
                           Box_into_raw(callback), oc)
    IN  [w |-> r.w, res |-> toResult(r.code)]

\* Stream::add_callback of the specification: the boxed closure, with what
\* it captured, is enqueued on the stream's native handle as the user data
\* of the native callback
Stream_add_callback(w, self, callback, oc) ==
    LET r == NativeEnqueue(w, "cuStreamAddCallback", self.inner, self.inner, "callback",
                           Box_into_raw(callback), oc)
    IN  [w |-> r.w, res |-> toResult(r.code)]

\* faulty variant: the closure is called with Ok(()) whatever the stream's
\* status is
callback_wrapper_ok(code, callback) ==
    [status |-> "Ok", seen |-> Box_from_raw(callback)]

\* the native callback add_callback registers: the driver calls it with the
\* stream's status and the user data; it takes the closure out of its box
\* and calls it with the status as a result
callback_wrapper(code, callback) ==
    [status |-> toResult(code), seen |-> Box_from_raw(callback)]

\* AsyncCopyDestination::async_copy_from of the specification: the copy is
\* enqueued on the native handle of the stream it is given
async_copy_from(w, stream, oc) ==
    LET r == NativeEnqueue(w, "cuMemcpyHtoDAsync", stream.inner, stream.inner, "work", NoEnv, oc)
    IN  [w |-> r.w, res |-> toResult(r.code)]

\* faulty variant: the copy goes to the legacy default stream, not to the
\* stream it is given
DeviceSlice_async_copy_from_default(w, self, source, stream, oc) ==
    IF ~(self.len = Len(source))
    THEN [w |-> w, res |-> Unwound, panic |-> TRUE]
    ELSE LET size == self.esz * self.len
         IN  IF size # 0
             THEN LET r == NativeEnqueue(w, "cuMemcpyHtoDAsync", stream.inner, Null,
                                         "copy", CopyEnv(self, source), oc)
                  IN  [w |-> r.w, res |-> toResult(r.code), panic |-> FALSE]
             ELSE [w |-> w, res |-> "Ok", panic |-> FALSE]

\* AsyncCopyDestination<[T]>::async_copy_from of the specification, for a
\* device slice: as copy_from, but the copy is enqueued on the stream and
\* the device performs it later, reading the source then
DeviceSlice_async_copy_from(w, self, source, stream, oc) ==
    IF ~(self.len = Len(source))
    THEN [w |-> w, res |-> Unwound, panic |-> TRUE]
    ELSE LET size == self.esz * self.len
         IN  IF size # 0
             THEN LET r == NativeEnqueue(w, "cuMemcpyHtoDAsync", stream.inner, stream.inner,
                                         "copy", CopyEnv(self, source), oc)
                  IN  [w |-> r.w, res |-> toResult(r.code), panic |-> FALSE]
             ELSE [w |-> w, res |-> "Ok", panic |-> FALSE]

\* the device has transferred all the elements of a copy
Transferred(o) == o.kind = "copy" => o.moved = 1..o.env.dst.len

\* allocation a after element k was written
StoreAt(w, a, k, v) ==
    [j \in 1..(IF k > Len(w.mem[a]) THEN k ELSE Len(w.mem[a])) |->
        IF j = k THEN v ELSE IF j <= Len(w.mem[a]) THEN w.mem[a][j] ELSE Uninit]

\* The device takes up a queued operation once all that its native stream
\* was given before it is completed: a stream's tasks are performed in the
\* order they were scheduled and do not overlap; tasks of different streams
\* may interleave or run concurrently.
Startable(q, i) ==
    /\ q[i].st = "queued"
    /\ \A j \in 1..(i - 1) : q[j].at = q[i].at => q[j].st = "done"

\* the operations the native stream of operation i was given before it
Prior(q, i) == {j \in 1..(i - 1) : q[j].at = q[i].at}

\* the status the driver hands the native callback of a stream: success
\* when nothing the stream was given before it failed, the error otherwise
StreamStatus(q, i) ==
    IF \A j \in Prior(q, i) : q[j].ok THEN "Success" ELSE "LaunchFailure"

\* how the device can complete an operation: device work succeeds or fails
\* at driver level; a callback is host code that returns
Completions(kind) == IF kind = "callback" THEN {TRUE} ELSE BOOLEAN

\* operation i as the device leaves it; for a callback the driver has
\* called the native callback with the stream's status and the user data
\* it was given, and `status` and `seen` are what the closure was called
\* with and what it found captured
Completed(q, i, ok) ==
    IF q[i].kind = "callback"
    THEN LET r == callback_wrapper(StreamStatus(q, i), q[i].env)
         IN  [q[i] EXCEPT !.st = "done", !.status = r.status, !.seen = r.seen]
    ELSE [q[i] EXCEPT !.st = "done", !.ok = ok]

---------------------------------------------------------------------------
(* The host program: its variables, and one action per library call.       *)

\* the values of an element type: the one value of the zero-sized type,
\* two values of u64
ValuesOf(esz) == IF esz = 0 THEN {0} ELSE {1, 2}

\* the value a program writes where it does not follow contents: the one
\* value of the zero-sized type, 1 for u64
AnyValue(esz) == IF esz = 0 THEN 0 ELSE 1

\* sizes a caller asks a buffer constructor or a raw allocator for: none,
\* a few, and a count whose byte size overflows usize for u64
SizeInputs == {0, 2, UsizeMax - 1}

\* the requests a caller makes: every size for u64, and many elements of
\* the zero-sized type
Asked(size, esz) == esz = 0 => size = UsizeMax - 1

\* the outcomes a library call did not use do not tell two runs apart:
\* the environment's sequence is success behind the calls that were made
Spent(oc, r) == \A i \in DOMAIN oc : i > Len(r.w.calls) => oc[i] = "Success"

\* the world a library call starts in
W0 == [heap |-> heap, mem |-> dmem, ops |-> ops, calls |-> <<>>]

\* the record of the last library call: its name, the container it
\* consumed, its size and element-size arguments, its CudaResult, the
\* container and the raw pointer it returned or was given, the native calls
\* it made, whether it panicked, and whether it was given the container
\* the previous call, a failed explicit drop, had handed back; for a copy,
\* the other device container, the host source, the host destination before
\* and after the call, and what the previous call, a successful copy from
\* the host, wrote to the container
\* no host data
NoData == <<Uninit>>

\* where the host thread is: between two library calls, or inside
\* Stream::synchronize on a stream
Idle == [at |-> "idle", stream |-> NoContainer]

InSynchronize(c) == [at |-> "synchronize", stream |-> c]

NoLast ==
    [op |-> "none", arg |-> NoContainer, size |-> 0, esz |-> 0, res |-> "Ok",
     out |-> NoContainer, ptr |-> Null, calls |-> <<>>, panic |-> FALSE,
     retry |-> FALSE, readopted |-> FALSE,
     peer |-> NoContainer, src |-> <<>>, dst |-> <<>>, host |-> <<>>, written |-> NoData,
     slice |-> DeviceSlice(Null, 0, 0), views |-> <<>>, range |-> <<>>,
     cmp |-> <<>>, name |-> "none"]

\* a panic unwinds; a panic while unwinding aborts the process
AfterPanic(panic) ==
    IF ~panic THEN status
    ELSE IF status = "running" THEN "panicked" ELSE "aborted"

DropOps == {"DeviceBox::drop", "DeviceBuffer::drop", "LockedBox::drop", "LockedBuffer::drop"}

\* history is kept for live allocations only
Settle(h) ==
    [a \in Allocs |-> IF h[a].st = "live" THEN h[a] ELSE [h[a] EXCEPT !.consumed = FALSE]]

\* the call is given a box that holds an allocation which came out of a
\* consumed box before: the box has re-adopted it
Readopted(arg) ==
    /\ IsBox(arg) /\ IsAlloc(arg.ptr)
    /\ heap[AllocOf(arg.ptr)].consumed

\* the effects every library call has: the native state, the work of the
\* streams, the record of the call, and the panic it may have raised
Commit(op, arg, size, esz, r, out, ptr) ==
    /\ heap' = Settle(r.w.heap)
    /\ last' = [NoLast EXCEPT
                  !.op = op, !.arg = arg, !.size = size, !.esz = esz, !.res = r.res,
                  !.out = out, !.ptr = ptr, !.calls = r.w.calls, !.panic = r.panic,
                  !.retry = last.op \in DropOps /\ last.res # "Ok" /\ last.out = arg,
                  !.readopted = Readopted(arg)]
    /\ dmem' = r.w.mem
    /\ ops' = r.w.ops
    /\ status' = AfterPanic(r.panic)
    /\ pc = Idle
    /\ UNCHANGED <<received, pc, pinned>>

\* a raw pointer the caller holds outside any container: the memory space
\* it came from, the address, size_of::<T>() and the number of elements its
\* allocation was made for
Raw(space, ptr, esz, count) ==
    [space |-> space, ptr |-> ptr, esz |-> esz, count |-> count]

NoRaw == Raw("none", Null, 0, 0)

\* the program's host buffer, the source of its asynchronous copies, filled
\* from value v on
HostBuffer(v) == [i \in 1..MaxLen |-> v + i - 1]

Init ==
    /\ heap = [a \in Allocs |-> [st |-> "unalloc", space |-> "none", refreed |-> FALSE, consumed |-> FALSE]]
    /\ dmem = [a \in Allocs |-> <<>>]
    /\ ops = <<>>
    /\ received = <<>>
    /\ pc = Idle
    /\ locals = EmptyBag
    /\ raw = NoRaw
    /\ last = NoLast
    /\ status = "running"
    /\ pinned = HostBuffer(1)

Running == status = "running"

\* a host variable is free to take a new container or a raw pointer
Room == BagCardinality(locals) + (IF raw = NoRaw THEN 0 ELSE 1) < MaxSlots

\* the containers the host variables hold, with and without one of them
Put(bag, c) == IF c = NoContainer THEN bag ELSE bag (+) SetToBag({c})

Take(bag, c) == bag (-) SetToBag({c})

Held == BagToSet(locals)

\* the memory space a container kind belongs to
SpaceOf(kind) ==
    CASE kind \in {"DeviceBox", "DeviceBuffer"} -> "device"
      [] kind \in {"UnifiedBox", "UBox"} -> "unified"
      [] kind \in {"LockedBox", "LockedBuffer"} -> "locked"
      [] kind = "Stream" -> "stream"
      [] kind = "ArrayObject" -> "array"
      [] kind = "Event" -> "event"
      [] OTHER -> "none"

\* a run of the program works with one family of resources: it asks for a
\* resource of a space only if all it holds and all the driver handed out
\* so far is of that space
Holds(space) ==
    /\ \A c \in Held : SpaceOf(c.kind) = space
    /\ raw.space \in {"none", space}
    /\ \A a \in Allocs : heap[a].space \in {"none", space}

\* a constructor binds its result, if it returns one, to a free variable
Construct(op, space, size, esz, r) ==
    /\ Holds(space)
    /\ Commit(op, NoContainer, size, esz, r, r.out, Null)
    /\ locals' = Put(locals, r.out)
    /\ UNCHANGED raw

DeviceBoxNew ==
    /\ Running /\ Room
    /\ \E esz \in ElemSizes, oc \in OutcomeSeqs(3) :
          /\ Holds("device")
          /\ \E call \in {DeviceBox_new(W0, AnyValue(esz), esz, oc)} :
                /\ Spent(oc, call)
                /\ Construct("DeviceBox::new", "device", 1, esz, call)

DeviceBoxUninitialized ==
    /\ Running /\ Room
    /\ \E esz \in ElemSizes, oc \in OutcomeSeqs(1) :
          /\ Holds("device")
          /\ \E call \in {DeviceBox_uninitialized(W0, esz, oc)} :
                /\ Spent(oc, call)
                /\ Construct("DeviceBox::uninitialized", "device", 1, esz, call)

DeviceBoxZeroed ==
    /\ Running /\ Room
    /\ \E esz \in ElemSizes, oc \in OutcomeSeqs(3) :
          /\ Holds("device")
          /\ \E call \in {DeviceBox_zeroed(W0, esz, oc)} :
                /\ Spent(oc, call)
                /\ Construct("DeviceBox::zeroed", "device", 1, esz, call)

DeviceBufferUninitialized ==
    /\ Running /\ Room
    /\ \E size \in SizeInputs, esz \in ElemSizes, oc \in OutcomeSeqs(1) :
          /\ Holds("device")
          /\ Asked(size, esz)
          /\ \E call \in {DeviceBuffer_uninitialized(W0, size, esz, oc)} :
                /\ Spent(oc, call)
                /\ Construct("DeviceBuffer::uninitialized", "device", size, esz, call)

DeviceBufferZeroed ==
    /\ Running /\ Room
    /\ \E size \in SizeInputs, esz \in ElemSizes, oc \in OutcomeSeqs(2) :
          /\ Holds("device")
          /\ Asked(size, esz)
          /\ \E call \in {DeviceBuffer_zeroed(W0, size, esz, oc)} :
                /\ Spent(oc, call)
                /\ Construct("DeviceBuffer::zeroed", "device", size, esz, call)

UnifiedBoxNew ==
    /\ Running /\ Room
    /\ \E esz \in ElemSizes, oc \in OutcomeSeqs(1) :
          /\ Holds("unified")
          /\ \E call \in {UnifiedBox_new(W0, AnyValue(esz), esz, oc)} :
                /\ Spent(oc, call)
                /\ Construct("UnifiedBox::new", "unified", 1, esz, call)

UnifiedBoxUninitialized ==
    /\ Running /\ Room
    /\ \E esz \in ElemSizes, oc \in OutcomeSeqs(1) :
          /\ Holds("unified")
          /\ \E call \in {UnifiedBox_uninitialized(W0, esz, oc)} :
                /\ Spent(oc, call)
                /\ Construct("UnifiedBox::uninitialized", "unified", 1, esz, call)

LockedBoxNew ==
    /\ Running /\ Room
    /\ \E esz \in ElemSizes, oc \in OutcomeSeqs(1) :
          /\ Holds("locked")
          /\ \E call \in {LockedBox_new(W0, esz, oc)} :
                /\ Spent(oc, call)
                /\ Construct("LockedBox::new", "locked", 1, esz, call)

LockedBoxUninitialized ==
    /\ Running /\ Room
    /\ \E esz \in ElemSizes, oc \in OutcomeSeqs(1) :
          /\ Holds("locked")
          /\ \E call \in {LockedBox_uninitialized(W0, esz, oc)} :
                /\ Spent(oc, call)
                /\ Construct("LockedBox::uninitialized", "locked", 1, esz, call)

LockedBufferNew ==
    /\ Running /\ Room
    /\ \E size \in SizeInputs, esz \in ElemSizes, oc \in OutcomeSeqs(1) :
          /\ Holds("locked")
          /\ Asked(size, esz)
          /\ \E call \in {LockedBuffer_new(W0, size, esz, oc)} :
                /\ Spent(oc, call)
                /\ Construct("LockedBuffer::new", "locked", size, esz, call)

LockedBufferUninitialized ==
    /\ Running /\ Room
    /\ \E size \in SizeInputs, esz \in ElemSizes, oc \in OutcomeSeqs(1) :
          /\ Holds("locked")
          /\ Asked(size, esz)
          /\ \E call \in {LockedBuffer_uninitialized(W0, size, esz, oc)} :
                /\ Spent(oc, call)
                /\ Construct("LockedBuffer::uninitialized", "locked", size, esz, call)

\* the lengths of the host slices a caller passes
SliceLens == {n \in SizeInputs : n <= MaxLen}

\* a host slice of a given length
SliceOf(len, esz) == [i \in 1..len |-> AnyValue(esz)]

LockedBufferFromSlice ==
    /\ Running /\ Room
    /\ \E len \in SliceLens, esz \in ElemSizes, oc \in OutcomeSeqs(1) :
          /\ Holds("locked")
          /\ \E call \in {LockedBuffer_from_slice(W0, SliceOf(len, esz), esz, oc)} :
                /\ Spent(oc, call)
                /\ Construct("LockedBuffer::from_slice", "locked", len, esz, call)

\* history: the allocation behind a pointer that came out of a consumed box
Consumed(w, p) ==
    IF IsAlloc(p) THEN [w EXCEPT !.heap[AllocOf(p)].consumed = TRUE] ELSE w

\* into_device / into_unified / into_raw: the box is consumed, the caller
\* keeps the pointer
IntoRaw(c, op, r) ==
    /\ raw = NoRaw
    /\ Commit(op, c, 1, c.esz,
              [w |-> Consumed(r.w, r.ptr), res |-> "Ok", panic |-> r.panic],
              NoContainer, r.ptr)
    /\ locals' = Take(locals, c)
    /\ raw' = Raw(SpaceOf(c.kind), r.ptr, c.esz, 1)

DeviceBoxIntoDevice ==
    /\ Running
    /\ \E c \in Held, oc \in OutcomeSeqs(1) :
          /\ c.kind = "DeviceBox"
          /\ \E call \in {DeviceBox_into_device(W0, c, oc)} :
                /\ Spent(oc, call)
                /\ IntoRaw(c, "DeviceBox::into_device", call)

UnifiedBoxIntoUnified ==
    /\ Running
    /\ \E c \in Held, oc \in OutcomeSeqs(1) :
          /\ c.kind = "UnifiedBox"
          /\ \E call \in {UnifiedBox_into_unified(W0, c, oc)} :
                /\ Spent(oc, call)
                /\ IntoRaw(c, "UnifiedBox::into_unified", call)

LockedBoxIntoRaw ==
    /\ Running
    /\ \E c \in Held, oc \in OutcomeSeqs(1) :
          /\ c.kind = "LockedBox"
          /\ \E call \in {LockedBox_into_raw(W0, c, oc)} :
                /\ Spent(oc, call)
                /\ IntoRaw(c, "LockedBox::into_raw", call)

\* the process aborts inside a library call
Abort(op, c) ==
    /\ status' = "aborted"
    /\ last' = [NoLast EXCEPT !.op = op, !.arg = c, !.size = 1, !.esz = c.esz]
    /\ locals' = Take(locals, c)
    /\ pc = Idle
    /\ UNCHANGED <<heap, dmem, ops, received, raw, pc, pinned>>

\* leak: the box is consumed as by into_unified / into_raw, the caller
\* keeps the reference
Leak(c, op, r) ==
    IF r.abort THEN raw = NoRaw /\ Abort(op, c) ELSE IntoRaw(c, op, r)

UnifiedBoxLeak ==
    /\ Running
    /\ \E c \in Held, build \in Builds, oc \in OutcomeSeqs(1) :
          /\ c.kind = "UnifiedBox"
          /\ \E call \in {UnifiedBox_leak(W0, c, build, oc)} :
                /\ Spent(oc, call)
                /\ Leak(c, "UnifiedBox::leak", call)

LockedBoxLeak ==
    /\ Running
    /\ \E c \in Held, build \in Builds, oc \in OutcomeSeqs(1) :
          /\ c.kind = "LockedBox"
          /\ \E call \in {LockedBox_leak(W0, c, build, oc)} :
                /\ Spent(oc, call)
                /\ Leak(c, "LockedBox::leak", call)

\* from_device / from_unified / from_raw / from_raw_parts: the pointer the
\* caller holds is adopted, once, by a new container of the family it came
\* from, which takes the pointer's variable
Adopt(op, space, size, c) ==
    /\ Running
    /\ raw.space = space
    /\ Commit(op, NoContainer, size, raw.esz, [w |-> W0, res |-> "Ok", panic |-> FALSE],
              c, raw.ptr)
    /\ locals' = Put(locals, c)
    /\ raw' = NoRaw

FromRaw(op, space, box) == Adopt(op, space, 1, box)

\* the capacity a caller gives from_raw_parts: "the capacity that the
\* pointer was allocated with"
Capacities == {raw.count}

DeviceBoxFromRaw ==
    FromRaw("DeviceBox::from_raw", "device", DeviceBox_from_raw(raw.ptr, raw.esz))

UnifiedBoxFromRaw ==
    FromRaw("UnifiedBox::from_raw", "unified", UnifiedBox_from_raw(raw.ptr, raw.esz))

DeviceBufferFromRawParts ==
    \E capacity \in Capacities :
        Adopt("DeviceBuffer::from_raw_parts", "device", capacity,
              DeviceBuffer_from_raw_parts(raw.ptr, capacity, raw.esz))

LockedBufferFromRawParts ==
    \E size \in Capacities :
        Adopt("LockedBuffer::from_raw_parts", "locked", size,
              LockedBuffer_from_raw_parts(raw.ptr, size, raw.esz))

DeviceBoxFromDevice ==
    FromRaw("DeviceBox::from_device", "device", DeviceBox_from_device(raw.ptr, raw.esz))

UnifiedBoxFromUnified ==
    FromRaw("UnifiedBox::from_unified", "unified", UnifiedBox_from_unified(raw.ptr, raw.esz))

LockedBoxFromRaw ==
    FromRaw("LockedBox::from_raw", "locked", LockedBox_from_raw(raw.ptr, raw.esz))

\* explicit drop-by-value: the container is passed in; on failure the
\* caller keeps the container the call hands back
ExplicitDrop(c, op, r) ==
    /\ Commit(op, c, c.cap, c.esz, r, r.out, Null)
    /\ locals' = Put(Take(locals, c), r.out)
    /\ UNCHANGED raw

DeviceBoxDrop ==
    /\ Running
    /\ \E c \in Held, oc \in OutcomeSeqs(1) :
          /\ c.kind = "DeviceBox"
          /\ \E call \in {DeviceBox_drop(W0, c, oc)} :
                /\ Spent(oc, call)
                /\ ExplicitDrop(c, "DeviceBox::drop", call)

DeviceBufferDrop ==
    /\ Running
    /\ \E c \in Held, oc \in OutcomeSeqs(1) :
          /\ c.kind = "DeviceBuffer"
          /\ \E call \in {DeviceBuffer_drop(W0, c, oc)} :
                /\ Spent(oc, call)
                /\ ExplicitDrop(c, "DeviceBuffer::drop", call)

LockedBoxDrop ==
    /\ Running
    /\ \E c \in Held, oc \in OutcomeSeqs(1) :
          /\ c.kind = "LockedBox"
          /\ \E call \in {LockedBox_drop(W0, c, oc)} :
                /\ Spent(oc, call)
                /\ ExplicitDrop(c, "LockedBox::drop", call)

LockedBufferDrop ==
    /\ Running
    /\ \E c \in Held, oc \in OutcomeSeqs(1) :
          /\ c.kind = "LockedBuffer"
          /\ \E call \in {LockedBuffer_drop(W0, c, oc)} :
                /\ Spent(oc, call)
                /\ ExplicitDrop(c, "LockedBuffer::drop", call)

\* scope exit: the variable's destructor runs, also while a panic unwinds
Unwinding == status \in {"running", "panicked"}

ScopeExit(c, r) ==
    /\ Commit("scope_exit", c, c.cap, c.esz,
              [w |-> r.w, res |-> "Ok", panic |-> r.panic], NoContainer, Null)
    /\ locals' = Take(locals, c)
    /\ UNCHANGED raw

DeviceBoxScopeExit ==
    /\ Unwinding
    /\ \E c \in Held, oc \in OutcomeSeqs(1) :
          /\ c.kind = "DeviceBox"
          /\ \E call \in {Drop_DeviceBox(W0, c, oc)} :
                /\ Spent(oc, call)
                /\ ScopeExit(c, call)

DeviceBufferScopeExit ==
    /\ Unwinding
    /\ \E c \in Held, oc \in OutcomeSeqs(1) :
          /\ c.kind = "DeviceBuffer"
          /\ \E call \in {Drop_DeviceBuffer(W0, c, oc)} :
                /\ Spent(oc, call)
                /\ ScopeExit(c, call)

UnifiedBoxScopeExit ==
    /\ Unwinding
    /\ \E c \in Held, oc \in OutcomeSeqs(1) :
          /\ c.kind = "UnifiedBox"
          /\ \E call \in {Drop_UnifiedBox(W0, c, oc)} :
                /\ Spent(oc, call)
                /\ ScopeExit(c, call)

LockedBoxScopeExit ==
    /\ Unwinding
    /\ \E c \in Held, oc \in OutcomeSeqs(1) :
          /\ c.kind = "LockedBox"
          /\ \E call \in {Drop_LockedBox(W0, c, oc)} :
                /\ Spent(oc, call)
                /\ ScopeExit(c, call)

LockedBufferScopeExit ==
    /\ Unwinding
    /\ \E c \in Held, oc \in OutcomeSeqs(1) :
          /\ c.kind = "LockedBuffer"
          /\ \E call \in {Drop_LockedBuffer(W0, c, oc)} :
                /\ Spent(oc, call)
                /\ ScopeExit(c, call)

StreamScopeExit ==
    /\ Unwinding
    /\ \E c \in Held, oc \in OutcomeSeqs(1) :
          /\ c.kind = "Stream"
          /\ \E call \in {Drop_Stream(W0, c, oc)} :
                /\ Spent(oc, call)
                /\ ScopeExit(c, call)

\* a move: the container passes to another variable as it is; no
\* destructor runs and no native call is made
Move ==
    /\ Running
    /\ Held # {}
    /\ last' = [NoLast EXCEPT !.op = "move"]
    /\ pc = Idle
    /\ UNCHANGED <<heap, dmem, ops, received, locals, raw, status, pc, pinned>>

\* copy_from between a host value and a DeviceBox
DeviceBoxCopy ==
    /\ Running
    /\ \E c \in Held, oc \in OutcomeSeqs(1) :
          /\ c.kind = "DeviceBox"
          /\ \E call \in {DeviceBox_copy_from(W0, c, AnyValue(c.esz), oc)} :
                /\ Spent(oc, call)
                /\ LET r == call
                   IN  Commit("DeviceBox::copy_from", c, 1, c.esz,
                              [w |-> r.w, res |-> r.res, panic |-> FALSE], c, Null)
    /\ UNCHANGED <<locals, raw>>

\* the raw allocation functions, called by the program itself: the caller
\* keeps the pointer of a successful allocation
RawMalloc(op, space, count, esz, r) ==
    /\ Running /\ Room /\ raw = NoRaw
    /\ Holds(space)
    /\ Commit(op, NoContainer, count, esz, [w |-> r.w, res |-> r.res, panic |-> FALSE],
              NoContainer, r.ptr)
    /\ raw' = IF r.res = "Ok" THEN Raw(space, r.ptr, esz, count) ELSE raw
    /\ UNCHANGED locals

CudaMalloc ==
    \E count \in SizeInputs, esz \in ElemSizes, oc \in OutcomeSeqs(1) :
        /\ Holds("device")
        /\ Asked(count, esz)
        /\ \E call \in {cuda_malloc(W0, count, esz, oc)} :
              /\ Spent(oc, call)
              /\ RawMalloc("cuda_malloc", "device", count, esz, call)

CudaMallocUnified ==
    \E count \in SizeInputs, esz \in ElemSizes, oc \in OutcomeSeqs(1) :
        /\ Holds("unified")
        /\ Asked(count, esz)
        /\ \E call \in {cuda_malloc_unified(W0, count, esz, oc)} :
              /\ Spent(oc, call)
              /\ RawMalloc("cuda_malloc_unified", "unified", count, esz, call)

CudaMallocLocked ==
    \E count \in SizeInputs, esz \in ElemSizes, oc \in OutcomeSeqs(1) :
        /\ Holds("locked")
        /\ Asked(count, esz)
        /\ \E call \in {cuda_malloc_locked(W0, count, esz, oc)} :
              /\ Spent(oc, call)
              /\ RawMalloc("cuda_malloc_locked", "locked", count, esz, call)

\* the raw free functions, given the pointer the caller holds or null; the
\* caller lets go of a pointer that was freed
RawFree(op, space, p, r) ==
    /\ Running
    /\ Holds(space)
    /\ p = Null \/ (raw.space = space /\ p = raw.ptr)
    /\ Commit(op, NoContainer, 1, raw.esz, [w |-> r.w, res |-> r.res, panic |-> FALSE],
              NoContainer, p)
    /\ raw' = IF r.res = "Ok" THEN NoRaw ELSE raw
    /\ UNCHANGED locals

CudaFree ==
    \E p \in {Null, raw.ptr}, oc \in OutcomeSeqs(1) :
        /\ Holds("device")
        /\ \E call \in {cuda_free(W0, p, oc)} :
              /\ Spent(oc, call)
              /\ RawFree("cuda_free", "device", p, call)

CudaFreeUnified ==
    \E p \in {Null, raw.ptr}, oc \in OutcomeSeqs(1) :
        /\ Holds("unified")
        /\ \E call \in {cuda_free_unified(W0, p, oc)} :
              /\ Spent(oc, call)
              /\ RawFree("cuda_free_unified", "unified", p, call)

CudaFreeLocked ==
    \E p \in {Null, raw.ptr}, oc \in OutcomeSeqs(1) :
        /\ Holds("locked")
        /\ \E call \in {cuda_free_locked(W0, p, oc)} :
              /\ Spent(oc, call)
              /\ RawFree("cuda_free_locked", "locked", p, call)

StreamNew ==
    /\ Running /\ Room
    /\ \E oc \in OutcomeSeqs(1) :
          /\ Holds("stream")
          /\ \E call \in {Stream_new(W0, oc)} :
                /\ Spent(oc, call)
                /\ Construct("Stream::new", "stream", 0, 0, call)

Next ==
    \/ DeviceBoxNew
    \/ DeviceBoxUninitialized
    \/ DeviceBoxZeroed
    \/ LockedBufferFromSlice
    \/ UnifiedBoxLeak
    \/ LockedBoxLeak
    \/ DeviceBoxFromRaw
    \/ UnifiedBoxFromRaw
    \/ DeviceBufferFromRawParts
    \/ LockedBufferFromRawParts
    \/ DeviceBufferUninitialized
    \/ DeviceBufferZeroed
    \/ UnifiedBoxNew
    \/ UnifiedBoxUninitialized
    \/ LockedBoxNew
    \/ LockedBoxUninitialized
    \/ LockedBufferNew
    \/ LockedBufferUninitialized
    \/ DeviceBoxIntoDevice
    \/ UnifiedBoxIntoUnified
    \/ LockedBoxIntoRaw
    \/ DeviceBoxFromDevice
    \/ UnifiedBoxFromUnified
    \/ LockedBoxFromRaw
    \/ DeviceBoxDrop
    \/ DeviceBufferDrop
    \/ LockedBoxDrop
    \/ LockedBufferDrop
    \/ DeviceBoxScopeExit
    \/ DeviceBufferScopeExit
    \/ UnifiedBoxScopeExit
    \/ LockedBoxScopeExit
    \/ LockedBufferScopeExit
    \/ StreamScopeExit
    \/ Move
    \/ DeviceBoxCopy
    \/ CudaMalloc
    \/ CudaMallocUnified
    \/ CudaMallocLocked
    \/ CudaFree
    \/ CudaFreeUnified
    \/ CudaFreeLocked
    \/ StreamNew

Spec == Init /\ [][Next]_vars

---------------------------------------------------------------------------
(* The program that works with UBoxes.                                     *)

UBoxNew ==
    /\ Running /\ Room
    /\ \E esz \in ElemSizes, oc \in OutcomeSeqs(1) :
          Construct("UBox::new", "unified", 1, esz, UBox_new(W0, AnyValue(esz), esz, oc))

\* b.clone(): a second variable takes the clone
UBoxClone ==
    /\ Running /\ Room
    /\ \E c \in Held :
          /\ c.kind = "UBox"
          /\ Commit("UBox::clone", NoContainer, 1, c.esz,
                    Return(W0, "Ok", UBox_clone(c), FALSE), UBox_clone(c), Null)
          /\ locals' = Put(locals, UBox_clone(c))
          /\ UNCHANGED raw

UBoxIntoRaw ==
    /\ Running
    /\ \E c \in Held, oc \in OutcomeSeqs(1) :
          /\ c.kind = "UBox"
          /\ IntoRaw(c, "UBox::into_raw", UBox_into_raw(W0, c, oc))

UBoxLeak ==
    /\ Running
    /\ \E c \in Held, build \in Builds, oc \in OutcomeSeqs(1) :
          /\ c.kind = "UBox"
          /\ Leak(c, "UBox::leak", UBox_leak(W0, c, build, oc))

UBoxFromRaw ==
    FromRaw("UBox::from_raw", "unified", UBox_from_raw(raw.ptr, raw.esz))

UBoxScopeExit ==
    /\ Unwinding
    /\ \E c \in Held, oc \in OutcomeSeqs(1) :
          c.kind = "UBox" /\ ScopeExit(c, Drop_UBox(W0, c, oc))

UBoxNext ==
    UBoxNew \/ UBoxClone \/ UBoxIntoRaw \/ UBoxLeak \/ UBoxFromRaw \/ UBoxScopeExit

UBoxSpec == Init /\ [][UBoxNext]_vars

---------------------------------------------------------------------------
(* Transfers.  A second program works with the contents of device memory:  *)
(* it builds DeviceBoxes and DeviceBuffers from host data and copies       *)
(* between them and the host.  The ownership program above does not follow *)
(* contents; this one releases nothing.                                    *)


\* the host slice of n values: consecutive ones from v on, or n times the
\* one value of the zero-sized type
Ramp(n, v, esz) == [i \in 1..n |-> IF esz = 0 THEN v ELSE v + i - 1]

\* host slices a caller passes: of every length up to MaxLen, holding
\* either of two contents that differ in every element
HostSlices(esz) ==
    {Ramp(n, v, esz) : n \in 0..MaxLen, v \in ValuesOf(esz)}

\* the calls that write host data to a container
HostToDeviceOps ==
    {"DeviceBox::new", "DeviceBox::copy_from", "DeviceBuffer::from_slice",
     "DeviceSlice::copy_from"}

\* what the previous call, if it was a successful copy from the host into
\* container c, wrote to it
Written(c) ==
    IF /\ last.op \in HostToDeviceOps /\ last.res = "Ok" /\ ~last.panic
       /\ c = (IF last.arg = NoContainer THEN last.out ELSE last.arg)
    THEN last.src
    ELSE NoData

\* a run of this program works with one container kind of one element type
Kin(kind, esz) == \A c \in Held : c.kind = kind /\ c.esz = esz

\* two different containers the program holds
Other(c, d) == c # d \/ locals[c] > 1

\* the effects of a copy: the native state, the device contents and the
\* record of the call
Transfer(op, arg, peer, src, dst, r) ==
    /\ heap' = Settle(r.w.heap)
    /\ dmem' = r.w.mem
    /\ last' = [NoLast EXCEPT
                  !.op = op, !.arg = arg, !.size = arg.cap, !.esz = arg.esz,
                  !.res = r.res, !.calls = r.w.calls, !.panic = r.panic,
                  !.peer = peer, !.src = src, !.dst = dst, !.host = r.host,
                  !.written = Written(arg)]
    /\ status' = AfterPanic(r.panic)
    /\ UNCHANGED <<ops, received, locals, raw, pc, pinned>>

\* a constructor that fills the container from host data
ConstructFrom(op, kind, src, esz, r) ==
    /\ Running /\ Room
    /\ Kin(kind, esz)
    /\ heap' = Settle(r.w.heap)
    /\ dmem' = r.w.mem
    /\ last' = [NoLast EXCEPT
                  !.op = op, !.size = Len(src), !.esz = esz, !.res = r.res,
                  !.out = r.out, !.calls = r.w.calls, !.panic = r.panic,
                  !.src = src]
    /\ status' = AfterPanic(r.panic)
    /\ locals' = Put(locals, r.out)
    /\ UNCHANGED <<ops, received, raw, pc, pinned>>

DeviceBoxNewFrom ==
    \E esz \in ElemSizes, oc \in OutcomeSeqs(3) :
        \E val \in ValuesOf(esz) :
            ConstructFrom("DeviceBox::new", "DeviceBox", <<val>>, esz,
                          DeviceBox_new(W0, val, esz, oc))

DeviceBufferFromSlice ==
    \E esz \in ElemSizes, oc \in OutcomeSeqs(3) :
        \E slice \in HostSlices(esz) :
            ConstructFrom("DeviceBuffer::from_slice", "DeviceBuffer", slice, esz,
                          DeviceBuffer_from_slice(W0, slice, esz, oc))

DeviceBoxCopyFrom ==
    /\ Running
    /\ \E c \in Held, oc \in OutcomeSeqs(1) :
          /\ c.kind = "DeviceBox"
          /\ \E val \in ValuesOf(c.esz) :
                LET r == DeviceBox_copy_from(W0, c, val, oc)
                IN  Transfer("DeviceBox::copy_from", c, NoContainer, <<val>>, <<>>,
                             Copied(r.w, r.res, <<>>, FALSE))

DeviceBoxCopyTo ==
    /\ Running
    /\ \E c \in Held, oc \in OutcomeSeqs(1) :
          /\ c.kind = "DeviceBox"
          /\ \E val \in ValuesOf(c.esz) :
                LET r == DeviceBox_copy_to(W0, c, val, oc)
                IN  Transfer("DeviceBox::copy_to", c, NoContainer, <<>>, <<val>>,
                             Copied(r.w, r.res, <<r.host>>, FALSE))

DeviceBoxCopyFromBox ==
    /\ Running
    /\ \E c, d \in Held, oc \in OutcomeSeqs(1) :
          /\ c.kind = "DeviceBox" /\ d.kind = "DeviceBox" /\ Other(c, d)
          /\ LET r == DeviceBox_copy_from_box(W0, c, d, oc)
             IN  Transfer("DeviceBox::copy_from_box", c, d, <<>>, <<>>,
                          Copied(r.w, r.res, <<>>, FALSE))

DeviceBoxCopyToBox ==
    /\ Running
    /\ \E c, d \in Held, oc \in OutcomeSeqs(1) :
          /\ c.kind = "DeviceBox" /\ d.kind = "DeviceBox" /\ Other(c, d)
          /\ LET r == DeviceBox_copy_to_box(W0, c, d, oc)
             IN  Transfer("DeviceBox::copy_to_box", c, d, <<>>, <<>>,
                          Copied(r.w, r.res, <<>>, FALSE))

\* the slice copies, each on the slice a DeviceBuffer derefs to
DeviceSliceCopyFrom ==
    /\ Running
    /\ \E c \in Held, oc \in OutcomeSeqs(1) :
          /\ c.kind = "DeviceBuffer"
          /\ \E val \in HostSlices(c.esz) :
                Transfer("DeviceSlice::copy_from", c, NoContainer, val, <<>>,
                         DeviceSlice_copy_from(W0, deref(c), val, oc))

DeviceSliceCopyTo ==
    /\ Running
    /\ \E c \in Held, oc \in OutcomeSeqs(1) :
          /\ c.kind = "DeviceBuffer"
          /\ \E val \in HostSlices(c.esz) :
                Transfer("DeviceSlice::copy_to", c, NoContainer, <<>>, val,
                         DeviceSlice_copy_to(W0, deref(c), val, oc))

DeviceSliceCopyFromSlice ==
    /\ Running
    /\ \E c, d \in Held, oc \in OutcomeSeqs(1) :
          /\ c.kind = "DeviceBuffer" /\ d.kind = "DeviceBuffer" /\ Other(c, d)
          /\ Transfer("DeviceSlice::copy_from_slice", c, d, <<>>, <<>>,
                      DeviceSlice_copy_from_slice(W0, deref(c), deref(d), oc))

DeviceSliceCopyToSlice ==
    /\ Running
    /\ \E c, d \in Held, oc \in OutcomeSeqs(1) :
          /\ c.kind = "DeviceBuffer" /\ d.kind = "DeviceBuffer" /\ Other(c, d)
          /\ Transfer("DeviceSlice::copy_to_slice", c, d, <<>>, <<>>,
                      DeviceSlice_copy_to_slice(W0, deref(c), deref(d), oc))

TransferNext ==
    \/ DeviceBoxNewFrom
    \/ DeviceBufferFromSlice
    \/ DeviceBoxCopyFrom
    \/ DeviceBoxCopyTo
    \/ DeviceBoxCopyFromBox
    \/ DeviceBoxCopyToBox
    \/ DeviceSliceCopyFrom
    \/ DeviceSliceCopyTo
    \/ DeviceSliceCopyFromSlice
    \/ DeviceSliceCopyToSlice

TransferSpec == Init /\ [][TransferNext]_vars

---------------------------------------------------------------------------
(* The program that copies on the device: between two DeviceBoxes, and     *)
(* between one-element parts of DeviceBuffers.                             *)

\* element i of buffer c as a slice: &c[i..i + 1]
Part(c, i) == DeviceSlice_index(deref(c), "Range", i, i + 1).views[1]

\* the parts a copy works on: two different elements of the program's
\* buffers (of one buffer, as split_at_mut gives them, or of two)
Parts ==
    {x \in Held \X (0..(MaxLen - 1)) \X Held \X (0..(MaxLen - 1)) :
        /\ x[1].kind = "DeviceBuffer" /\ x[3].kind = "DeviceBuffer"
        /\ x[2] < x[1].cap /\ x[4] < x[3].cap
        /\ IF x[1] = x[3] THEN x[2] # x[4] \/ locals[x[1]] > 1 ELSE TRUE}

\* a copy between two parts
PartCopy(op, x, r) ==
    /\ Running
    /\ heap' = Settle(r.w.heap)
    /\ dmem' = r.w.mem
    /\ last' = [NoLast EXCEPT
                  !.op = op, !.arg = x[1], !.peer = x[3], !.esz = x[1].esz,
                  !.views = <<Part(x[1], x[2]), Part(x[3], x[4])>>,
                  !.res = r.res, !.calls = r.w.calls, !.panic = r.panic]
    /\ status' = AfterPanic(r.panic)
    /\ UNCHANGED <<ops, received, locals, raw, pc, pinned>>

PartOps == {"DeviceSlice::index copy_to_slice", "DeviceSlice::index_mut copy_from_slice"}

\* a.copy_to(&mut b) for two parts a, b: the first copy the program makes
\* after it built a buffer
PartCopyToPart ==
    \E x \in Parts, oc \in OutcomeSeqs(1) :
        /\ last.op \notin PartOps
        /\ PartCopy("DeviceSlice::index copy_to_slice", x,
                 DeviceSlice_copy_to_slice(W0, Part(x[1], x[2]), Part(x[3], x[4]), oc))

\* a.copy_from(&b) for two parts a, b: the first copy the program makes
\* after it built a buffer, or the one after its copy_to
PartCopyFromPart ==
    \E x \in Parts, oc \in OutcomeSeqs(1) :
        /\ last.op # "DeviceSlice::index_mut copy_from_slice"
        /\ PartCopy("DeviceSlice::index_mut copy_from_slice", x,
                 DeviceSlice_copy_from_slice(W0, Part(x[1], x[2]), Part(x[3], x[4]), oc))

\* the program copies between the parts of two buffers, which it could
\* build
PartBufferFromSlice ==
    /\ \A c, d \in Held : c = d /\ locals[c] = 1
    /\ \E esz \in ElemSizes :
          \E slice \in HostSlices(esz) :
              ConstructFrom("DeviceBuffer::from_slice", "DeviceBuffer", slice, esz,
                            DeviceBuffer_from_slice(W0, slice, esz, <<>>))

DeviceCopyNext ==
    \/ DeviceBoxNewFrom
    \/ PartBufferFromSlice
    \/ DeviceBoxCopyFromBox
    \/ DeviceBoxCopyToBox
    \/ PartCopyFromPart
    \/ PartCopyToPart

DeviceCopySpec == Init /\ [][DeviceCopyNext]_vars

---------------------------------------------------------------------------
(* memory/array.rs and event.rs: an ArrayObject and an Event each wrap one *)
(* native handle.                                                          *)

\* an ArrayObject { handle } or an Event(handle)
Handle(kind, inner) ==
    [kind |-> kind, ptr |-> Null, buf |-> Null, inner |-> inner, cap |-> 0, esz |-> 0]

\* a native call that uses handle h without changing it: refused when h is
\* no live handle
NativeUse(w, fn, h, oc) ==
    LET o == IF IsAlloc(h) /\ w.heap[AllocOf(h)].st = "live"
             THEN NextOutcome(w, oc) ELSE "InvalidHandle"
    IN  [w |-> [w EXCEPT !.calls = Append(@, NativeCall(fn, h, o))], code |-> o]

\* ArrayObject::descriptor: cuArray3DGetDescriptor_v2 on the handle
ArrayObject_descriptor(w, self, oc) ==
    LET r == NativeUse(w, "cuArray3DGetDescriptor", self.inner, oc)
    IN  Return(r.w, toResult(r.code), NoContainer, FALSE)

\* Event::synchronize: cuEventSynchronize on the handle
Event_synchronize(w, self, oc) ==
    LET r == NativeUse(w, "cuEventSynchronize", self.inner, oc)
    IN  Return(r.w, toResult(r.code), NoContainer, FALSE)

\* ArrayObject::from_descriptor of a valid descriptor: cuArray3DCreate_v2
ArrayObject_from_descriptor(w, oc) ==
    LET r == NativeAlloc(w, "cuArray3DCreate", "array", 0, oc)
    IN  IF toResult(r.code) # "Ok"
        THEN Return(r.w, toResult(r.code), NoContainer, FALSE)
        ELSE Return(r.w, "Ok", Handle("ArrayObject", r.ptr), FALSE)

\* impl Drop for ArrayObject: cuArrayDestroy(self.handle) .. .expect(..)
Drop_ArrayObject(w, self, oc) ==
    LET r == NativeFree(w, "cuArrayDestroy", self.inner, oc)
    IN  [w |-> r.w, panic |-> toResult(r.code) # "Ok"]

\* ArrayObject::drop: on Ok the parameter `array` is still owned by the
\* function and goes out of scope at its end; on Err it is moved into the
\* result
ArrayObject_drop(w, array, oc) ==
    LET r == NativeFree(w, "cuArrayDestroy", array.inner, oc)
    IN  IF toResult(r.code) = "Ok"
        THEN LET d == Drop_ArrayObject(r.w, array, oc)
             IN  Return(d.w, "Ok", NoContainer, d.panic)
        ELSE Return(r.w, toResult(r.code), array, FALSE)

\* Event::new: cuEventCreate
Event_new(w, oc) ==
    LET r == NativeAlloc(w, "cuEventCreate", "event", 0, oc)
    IN  IF toResult(r.code) # "Ok"
        THEN Return(r.w, toResult(r.code), NoContainer, FALSE)
        ELSE Return(r.w, "Ok", Handle("Event", r.ptr), FALSE)

\* impl Drop for Event: cuEventDestroy_v2(self.0) .. .expect(..), whatever
\* self.0 is
Drop_Event(w, self, oc) ==
    LET r == NativeFree(w, "cuEventDestroy", self.inner, oc)
    IN  [w |-> r.w, panic |-> toResult(r.code) # "Ok"]

\* Event::drop: the local `event`, its handle replaced by null, is
\* forgotten on success and dropped at the end of the function otherwise
Event_drop(w, event, oc) ==
    IF is_null(event.inner)
    THEN LET d == Drop_Event(w, event, oc)
         IN  Return(d.w, "Ok", NoContainer, d.panic)
    ELSE LET inner == event.inner
             r == NativeFree(w, "cuEventDestroy", inner, oc)
         IN  IF toResult(r.code) = "Ok"
             THEN Return(r.w, "Ok", NoContainer, FALSE)
             ELSE LET d == Drop_Event(r.w, [event EXCEPT !.inner = Null], oc)
                  IN  Return(d.w, toResult(r.code), Handle("Event", inner), d.panic)

\* the program that works with arrays and events
ArrayObjectNew ==
    /\ Running /\ Room
    /\ \E oc \in OutcomeSeqs(1) :
          Construct("ArrayObject::from_descriptor", "array", 0, 0,
                    ArrayObject_from_descriptor(W0, oc))

ArrayObjectDrop ==
    /\ Running
    /\ \E c \in Held, oc \in OutcomeSeqs(2) :
          /\ c.kind = "ArrayObject"
          /\ ExplicitDrop(c, "ArrayObject::drop", ArrayObject_drop(W0, c, oc))

ArrayObjectScopeExit ==
    /\ Unwinding
    /\ \E c \in Held, oc \in OutcomeSeqs(1) :
          c.kind = "ArrayObject" /\ ScopeExit(c, Drop_ArrayObject(W0, c, oc))

EventNew ==
    /\ Running /\ Room
    /\ \E oc \in OutcomeSeqs(1) :
          Construct("Event::new", "event", 0, 0, Event_new(W0, oc))

EventDrop ==
    /\ Running
    /\ \E c \in Held, oc \in OutcomeSeqs(2) :
          /\ c.kind = "Event"
          /\ ExplicitDrop(c, "Event::drop", Event_drop(W0, c, oc))

EventScopeExit ==
    /\ Unwinding
    /\ \E c \in Held, oc \in OutcomeSeqs(1) :
          c.kind = "Event" /\ ScopeExit(c, Drop_Event(W0, c, oc))

\* a call that borrows the container
Borrow(c, op, r) ==
    /\ Commit(op, c, c.cap, c.esz, r, NoContainer, Null)
    /\ UNCHANGED <<locals, raw>>

ArrayObjectDescriptor ==
    /\ Running
    /\ \E c \in Held, oc \in OutcomeSeqs(1) :
          /\ c.kind = "ArrayObject"
          /\ Borrow(c, "ArrayObject::descriptor", ArrayObject_descriptor(W0, c, oc))

EventSynchronize ==
    /\ Running
    /\ \E c \in Held, oc \in OutcomeSeqs(1) :
          /\ c.kind = "Event"
          /\ Borrow(c, "Event::synchronize", Event_synchronize(W0, c, oc))

HandleNext ==
    \/ ArrayObjectNew \/ ArrayObjectDescriptor \/ ArrayObjectDrop \/ ArrayObjectScopeExit
    \/ EventNew \/ EventSynchronize \/ EventDrop \/ EventScopeExit

HandleSpec == Init /\ [][HandleNext]_vars

---------------------------------------------------------------------------
(* module.rs: the globals of a loaded module and the Symbols that refer to *)
(* them.  The module's image holds the globals named in Globals, each of   *)
(* the non-zero-sized element type; global g lies in allocation g and is   *)
(* resident in device memory from its first lookup on.                     *)

Globals == Allocs

GlobalSize == CHOOSE e \in ElemSizes : e # 0

\* native cuModuleGetGlobal_v2: the address and the size of the global
cuModuleGetGlobal(w, name, oc) ==
    LET e == NextOutcome(w, oc)
        v == IF e = "Success"
             THEN [w EXCEPT !.heap[name] =
                      [st |-> "live", space |-> "global", refreed |-> FALSE, consumed |-> FALSE]]
             ELSE w
    IN  [w |-> [v EXCEPT !.calls = Append(@, NativeCall("cuModuleGetGlobal", name, e))],
         code |-> e,
         ptr |-> IF e = "Success" THEN Addr(name) ELSE Null,
         size |-> IF e = "Success" THEN GlobalSize ELSE 0]

\* Module::get_global::<T>: the lookup, then assert_eq!(size, size_of::<T>())
Module_get_global(w, name, esz, oc) ==
    LET r == cuModuleGetGlobal(w, name, oc)
    IN  IF toResult(r.code) # "Ok"
        THEN Return(r.w, toResult(r.code), NoContainer, FALSE)
        ELSE IF r.size # esz
        THEN Return(r.w, Unwound, NoContainer, TRUE)
        ELSE Return(r.w, "Ok", Box("Symbol", r.ptr, esz), FALSE)

\* CopyDestination<T> for Symbol: copy_from
Symbol_copy_from(w, self, val, oc) ==
    LET size == self.esz
    IN  IF size # 0
        THEN LET r == cuMemcpyHtoD(w, self.ptr, <<val>>, size, self.esz, oc)
             IN  Copied(r.w, toResult(r.code), <<>>, FALSE)
        ELSE Copied(w, "Ok", <<>>, FALSE)

\* CopyDestination<T> for Symbol: copy_to; `host` is *val afterwards
Symbol_copy_to(w, self, val, oc) ==
    LET size == self.esz
    IN  IF size # 0
        THEN LET r == cuMemcpyDtoH(w, <<val>>, self.ptr, size, self.esz, oc)
             IN  Copied(r.w, toResult(r.code), r.host, FALSE)
        ELSE Copied(w, "Ok", <<val>>, FALSE)

\* faulty variant: a destructor that frees what the Symbol points to
Drop_Symbol_freeing(w, self, oc) ==
    LET r == cuda_free(w, self.ptr, oc)
    IN  [w |-> r.w, panic |-> r.res # "Ok"]

\* a Symbol going out of scope: the struct has no Drop implementation and
\* its fields (a DevicePointer, a PhantomData) have none either
Drop_Symbol(w, self, oc) == [w |-> w, panic |-> FALSE]

\* the program that works with Symbols of a module
ModuleGetGlobal ==
    /\ Running /\ Room
    /\ \E name \in Globals, esz \in ElemSizes, oc \in OutcomeSeqs(1) :
          LET r == Module_get_global(W0, name, esz, oc)
          IN  /\ Commit("Module::get_global", NoContainer, 1, esz, r, r.out, Null)
              /\ locals' = Put(locals, r.out)
              /\ UNCHANGED raw

SymbolCopyFrom ==
    /\ Running
    /\ \E c \in Held, oc \in OutcomeSeqs(1) :
          /\ c.kind = "Symbol"
          /\ \E val \in ValuesOf(c.esz) :
                Transfer("Symbol::copy_from", c, NoContainer, <<val>>, <<>>,
                         Symbol_copy_from(W0, c, val, oc))

SymbolCopyTo ==
    /\ Running
    /\ \E c \in Held, oc \in OutcomeSeqs(1) :
          /\ c.kind = "Symbol"
          /\ \E val \in ValuesOf(c.esz) :
                Transfer("Symbol::copy_to", c, NoContainer, <<>>, <<val>>,
                         Symbol_copy_to(W0, c, val, oc))

SymbolScopeExit ==
    /\ Unwinding
    /\ \E c \in Held, oc \in OutcomeSeqs(1) :
          c.kind = "Symbol" /\ ScopeExit(c, Drop_Symbol(W0, c, oc))

SymbolNext == ModuleGetGlobal \/ SymbolCopyFrom \/ SymbolCopyTo \/ SymbolScopeExit

SymbolSpec == Init /\ [][SymbolNext]_vars

---------------------------------------------------------------------------
(* The program that compares unified boxes: it builds boxes from values    *)
(* and compares two of them with == and <.                                *)

UnifiedBoxNewFrom ==
    \E esz \in ElemSizes, oc \in OutcomeSeqs(1) :
        \E val \in ValuesOf(esz) :
            ConstructFrom("UnifiedBox::new", "UnifiedBox", <<val>>, esz,
                          UnifiedBox_new(W0, val, esz, oc))

UBoxNewFrom ==
    \E esz \in ElemSizes, oc \in OutcomeSeqs(1) :
        \E val \in ValuesOf(esz) :
            ConstructFrom("UBox::new", "UBox", <<val>>, esz,
                          UBox_new(W0, val, esz, oc))

\* x == y and x < y for two boxes the program holds
Compare ==
    /\ Running
    /\ \E x, y \in Held, build \in Builds :
          /\ Other(x, y)
          /\ x.kind = y.kind /\ x.kind \in {"UnifiedBox", "UBox"}
          /\ LET eq == IF x.kind = "UnifiedBox"
                       THEN UnifiedBox_eq(W0, x, y, build) ELSE UBox_eq(W0, x, y, build)
                 lt == IF x.kind = "UnifiedBox"
                       THEN UnifiedBox_lt(W0, x, y, build) ELSE UBox_lt(W0, x, y, build)
             IN  /\ last' = [NoLast EXCEPT
                               !.op = "eq lt", !.arg = x, !.peer = y,
                               !.cmp = IF eq.abort THEN <<>>
                                       ELSE [eq |-> eq.val, lt |-> lt.val]]
                 /\ status' = IF eq.abort THEN "aborted" ELSE status
    /\ UNCHANGED <<heap, dmem, ops, received, locals, raw, pc, pinned>>

\* a box goes out of scope
BoxScopeExit == UnifiedBoxScopeExit \/ UBoxScopeExit

CompareNext == UnifiedBoxNewFrom \/ UBoxNewFrom \/ Compare \/ BoxScopeExit

CompareSpec == Init /\ [][CompareNext]_vars

---------------------------------------------------------------------------
(* Streams.  A third program creates streams, enqueues kernels, callbacks  *)
(* and asynchronous copies on them and waits for them, while the device    *)
(* works through what it was given.                                        *)

\* number of operations a program enqueues
MaxOps == 3

\* the streams are taken into use in the order they were created
InTurn(c) ==
    \A d \in Held : d.inner < c.inner => \E i \in DOMAIN ops : ops[i].on = d.inner

\* an enqueueing call: it returns what the native call returned
Enqueue(op, c, r) ==
    /\ InTurn(c)
    /\ ops' = r.w.ops
    /\ last' = [NoLast EXCEPT !.op = op, !.arg = c, !.res = r.res,
                              !.calls = r.w.calls]
    /\ UNCHANGED <<heap, dmem, received, locals, raw, status, pc, pinned>>

\* the host thread can enqueue
CanEnqueue == Running /\ pc = Idle /\ Len(ops) < MaxOps

\* a run of this program creates its streams before it enqueues anything
StreamCreate == ops = <<>> /\ StreamNew

StreamLaunch ==
    /\ CanEnqueue
    /\ \E c \in Held, oc \in OutcomeSeqs(1) :
          c.kind = "Stream" /\ Enqueue("Stream::launch", c, Stream_launch(W0, c, oc))

\* the callbacks the device was given
Callbacks(q) == {i \in DOMAIN q : q[i].kind = "callback"}

\* the closures of this program capture their number: the first captures
\* 1, the next 2, and so on
Closures == {<<Cardinality(Callbacks(ops)) + 1>>}

StreamAddCallback ==
    /\ CanEnqueue
    /\ \E c \in Held, callback \in Closures, oc \in OutcomeSeqs(1) :
          c.kind = "Stream"
              /\ Enqueue("Stream::add_callback", c, Stream_add_callback(W0, c, callback, oc))

AsyncCopyFrom ==
    /\ CanEnqueue
    /\ \E c \in Held, oc \in OutcomeSeqs(1) :
          c.kind = "Stream" /\ Enqueue("async_copy_from", c, async_copy_from(W0, c, oc))

\* Stream::synchronize is called: the host thread is inside it
StreamSynchronize ==
    /\ Running /\ pc = Idle
    /\ \E c \in Held : c.kind = "Stream" /\ pc' = InSynchronize(c)
    /\ UNCHANGED <<heap, dmem, ops, received, locals, raw, last, status, pinned>>

\* Stream::synchronize returns, when its native call does
StreamSynchronizeReturn ==
    /\ pc.at = "synchronize"
    /\ \E oc \in OutcomeSeqs(1) :
          LET r == Stream_synchronize(W0, pc.stream, oc)
          IN  /\ r.wait = {}
              /\ last' = [NoLast EXCEPT !.op = "Stream::synchronize", !.arg = pc.stream,
                                        !.res = r.res, !.calls = r.w.calls]
    /\ pc' = Idle
    /\ UNCHANGED <<heap, dmem, ops, received, locals, raw, status, pinned>>

\* the device takes up operation i
DeviceStart(i) ==
    /\ Startable(ops, i)
    /\ ops' = [ops EXCEPT ![i].st = "running"]
    /\ UNCHANGED <<heap, dmem, received, locals, raw, last, status, pc, pinned>>

\* the device completes operation i; a callback has run and handed its
\* number to the host's receiver
DeviceFinish(i) ==
    /\ ops[i].st = "running"
    /\ \E ok \in Completions(ops[i].kind) :
          /\ ok => Transferred(ops[i])
          /\ ops' = [ops EXCEPT ![i] = Completed(ops, i, ok)]
    /\ received' = IF ops[i].kind = "callback" THEN Append(received, i) ELSE received
    /\ UNCHANGED <<heap, dmem, locals, raw, last, status, pc, pinned>>

DeviceStarts == \E i \in DOMAIN ops : DeviceStart(i)

DeviceFinishes == \E i \in DOMAIN ops : DeviceFinish(i)

StreamNext ==
    \/ StreamCreate
    \/ StreamLaunch
    \/ StreamAddCallback
    \/ AsyncCopyFrom
    \/ StreamSynchronize
    \/ StreamSynchronizeReturn
    \/ DeviceStarts
    \/ DeviceFinishes

StreamSpec == Init /\ [][StreamNext]_vars

\* ---------------------------------------------------------------------
\* function.rs: launch!, the form that names a module and a function
\* ---------------------------------------------------------------------

\* the kernels the loaded module defines, and the names a program asks for
Kernels == {"sum"}

KernelNames == Kernels \cup {"missing"}

\* native cuModuleGetFunction: the handle of the kernel of that name, or
\* an error code (NotFound when the module defines no such kernel)
cuModuleGetFunction(w, name, oc) ==
    LET e == IF name \in Kernels THEN NextOutcome(w, oc) ELSE "NotFound"
    IN  [w |-> [w EXCEPT !.calls = Append(@, NativeCall("cuModuleGetFunction", name, e))],
         code |-> e,
         func |-> IF e = "Success" THEN name ELSE "none"]

\* Module::get_function
Module_get_function(w, name, oc) ==
    LET r == cuModuleGetFunction(w, name, oc)
    IN  IF toResult(r.code) # "Ok"
        THEN [w |-> r.w, res |-> toResult(r.code), func |-> "none"]
        ELSE [w |-> r.w, res |-> "Ok", func |-> r.func]

\* faulty variant: the kernel is launched whatever the lookup returned
launch_unmatched(w, function, stream, oc) ==
    LET f == Module_get_function(w, function, oc)
        l == Stream_launch(f.w, stream, oc)
    IN  IF f.res = "Ok" THEN l ELSE [w |-> l.w, res |-> f.res]

\* launch!(module.function<<<grid, block, shared, stream>>>(args)): the
\* lookup, then on Ok(f) the form that names a function value, which is
\* stream.launch(&f, ...); on Err(e), Err(e)
launch(w, function, stream, oc) ==
    LET f == Module_get_function(w, function, oc)
    IN  IF f.res = "Ok"
        THEN Stream_launch(f.w, stream, oc)
        ELSE [w |-> f.w, res |-> f.res]

\* a program that launches kernels by name
LaunchByName ==
    /\ CanEnqueue
    /\ \E c \in Held, function \in KernelNames, oc \in OutcomeSeqs(2) :
          /\ c.kind = "Stream"
          /\ (function \notin Kernels => \A i \in DOMAIN oc : oc[i] = "Success")
          /\ (oc[1] # "Success" => oc[2] = "Success")
          /\ InTurn(c)
          /\ LET r == launch(W0, function, c, oc)
             IN  /\ ops' = r.w.ops
                 /\ last' = [NoLast EXCEPT !.op = "launch!", !.arg = c, !.name = function,
                                           !.res = r.res, !.calls = r.w.calls]
          /\ UNCHANGED <<heap, dmem, received, locals, raw, status, pc, pinned>>

LaunchNext ==
    \/ StreamCreate
    \/ LaunchByName
    \/ StreamSynchronize
    \/ StreamSynchronizeReturn
    \/ DeviceStarts
    \/ DeviceFinishes

LaunchSpec == Init /\ [][LaunchNext]_vars

\* the number of operations the programs of the smaller specifications
\* enqueue
MaxQueued == 2

\* Stream::drop(stream)
StreamDrop ==
    /\ Running
    /\ \E c \in Held, oc \in OutcomeSeqs(1) :
          /\ c.kind = "Stream"
          /\ ExplicitDrop(c, "Stream::drop", Stream_drop(W0, c, oc))

\* a program that creates streams, gives them kernels, waits for them and
\* destroys them, by Stream::drop or by letting them go out of scope
StreamDropNext ==
    \/ StreamNew
    \/ Len(ops) < MaxQueued /\ StreamLaunch
    \/ StreamSynchronize
    \/ StreamSynchronizeReturn
    \/ DeviceStarts
    \/ DeviceFinishes
    \/ StreamDrop
    \/ StreamScopeExit

StreamDropSpec == Init /\ [][StreamDropNext]_vars

\* what the device can find at element k of the source: the element as
\* it is now, or, once the caller has freed the source, whatever lies
\* there
SourceReads(k) ==
    IF pinned # <<>> THEN {pinned[k]}
    ELSE {Uninit} \cup {HostBuffer(v)[k] : v \in ValuesOf(8)}

\* the device transfers an element of copy i it has not transferred yet,
\* whichever: it reads the source as it is now and writes the destination,
\* if that is still allocated
DeviceTransfer(i) ==
    /\ ops[i].kind = "copy" /\ ops[i].st = "running"
    /\ Mapped(W0, ops[i].env.dst.ptr)
    /\ \E k \in (1..ops[i].env.dst.len) \ ops[i].moved :
          \E v \in SourceReads(k) :
             LET a == AllocOf(ops[i].env.dst.ptr)
             IN  /\ dmem' = [dmem EXCEPT ![a] = StoreAt(W0, a, k, v)]
                 /\ ops' = [ops EXCEPT ![i].moved = @ \cup {k}]
    /\ UNCHANGED <<heap, received, locals, raw, last, status, pc, pinned>>

DeviceTransfers == \E i \in DOMAIN ops : DeviceTransfer(i)

\* the copies among q that a use of the source, or of the destination at
\* device address p, touches
TouchSource(q) == [i \in DOMAIN q |-> IF q[i].kind = "copy" THEN [q[i] EXCEPT !.touched = TRUE] ELSE q[i]]

TouchDestination(q, p) ==
    [i \in DOMAIN q |-> IF q[i].kind = "copy" /\ q[i].env.dst.ptr = p
                         THEN [q[i] EXCEPT !.touched = TRUE] ELSE q[i]]

\* the stream of the copies: the program creates one
CopyStreamNew == (\A a \in Allocs : heap[a].st = "unalloc") /\ StreamCreate

\* the destination of the copies: the program creates one DeviceBuffer, as
\* long as the host buffer
DestinationFromSlice ==
    /\ Running /\ Room /\ pc = Idle /\ pinned # <<>>
    /\ \A a \in Allocs : heap[a].space # "device"
    /\ \E slice \in HostSlices(8), oc \in OutcomeSeqs(3) :
          /\ Len(slice) = Len(pinned)
          /\ LET r == DeviceBuffer_from_slice(W0, slice, 8, oc)
             IN  /\ heap' = Settle(r.w.heap)
                 /\ dmem' = r.w.mem
                 /\ last' = [NoLast EXCEPT
                               !.op = "DeviceBuffer::from_slice", !.size = Len(slice),
                               !.esz = 8, !.res = r.res, !.out = r.out,
                               !.calls = r.w.calls, !.panic = r.panic, !.src = slice]
                 /\ status' = AfterPanic(r.panic)
                 /\ locals' = Put(locals, r.out)
    /\ UNCHANGED <<ops, received, raw, pc, pinned>>

\* the number of asynchronous copies the copying program makes
MaxCopies == 1

\* dst.async_copy_from(&pinned, &stream)
AsyncCopyFromPinned ==
    /\ Running /\ pc = Idle /\ Len(ops) < MaxCopies /\ pinned # <<>>
    /\ \E c, d \in Held, oc \in OutcomeSeqs(1) :
          /\ c.kind = "Stream" /\ d.kind = "DeviceBuffer"
          /\ LET r == DeviceSlice_async_copy_from(W0, deref(d), pinned, c, oc)
             IN  /\ ops' = r.w.ops
                 /\ last' = [NoLast EXCEPT
                               !.op = "DeviceSlice::async_copy_from", !.arg = d, !.peer = c,
                               !.res = r.res, !.calls = r.w.calls, !.panic = r.panic,
                               !.src = pinned]
                 /\ status' = AfterPanic(r.panic)
    /\ UNCHANGED <<heap, dmem, received, locals, raw, pc, pinned>>

\* the caller writes the source
PinnedWrite ==
    /\ Running /\ pc = Idle /\ pinned # <<>>
    /\ \E v \in ValuesOf(8) : HostBuffer(v) # pinned /\ pinned' = HostBuffer(v)
    /\ ops' = TouchSource(ops)
    /\ last' = [NoLast EXCEPT !.op = "write source", !.src = pinned']
    /\ UNCHANGED <<heap, dmem, received, locals, raw, status, pc>>

\* the caller frees the source: the host buffer goes out of scope
PinnedScopeExit ==
    /\ Unwinding /\ pc = Idle /\ pinned # <<>>
    /\ pinned' = <<>>
    /\ ops' = TouchSource(ops)
    /\ last' = [NoLast EXCEPT !.op = "free source", !.src = pinned]
    /\ UNCHANGED <<heap, dmem, received, locals, raw, status, pc>>

\* the caller reads the destination: dst.copy_to(&mut out)
DestinationRead ==
    /\ Running /\ pc = Idle
    /\ \E d \in Held :
          /\ d.kind = "DeviceBuffer"
          /\ LET r == DeviceSlice_copy_to(W0, deref(d), HostBuffer(0), <<>>)
             IN  /\ last' = [NoLast EXCEPT
                               !.op = "DeviceSlice::copy_to", !.arg = d, !.res = r.res,
                               !.calls = r.w.calls, !.panic = r.panic, !.host = r.host]
                 /\ status' = AfterPanic(r.panic)
          /\ ops' = TouchDestination(ops, d.buf)
    /\ UNCHANGED <<heap, dmem, received, locals, raw, pc, pinned>>

\* the caller writes the destination: dst.copy_from(&val)
DestinationWrite ==
    /\ Running /\ pc = Idle
    /\ \E d \in Held, v \in ValuesOf(8) :
          /\ d.kind = "DeviceBuffer"
          /\ LET r == DeviceSlice_copy_from(W0, deref(d), HostBuffer(v), <<>>)
             IN  /\ dmem' = r.w.mem
                 /\ last' = [NoLast EXCEPT
                               !.op = "DeviceSlice::copy_from", !.arg = d, !.res = r.res,
                               !.calls = r.w.calls, !.panic = r.panic, !.src = HostBuffer(v)]
                 /\ status' = AfterPanic(r.panic)
          /\ ops' = TouchDestination(ops, d.buf)
    /\ UNCHANGED <<heap, received, locals, raw, pc, pinned>>

\* a program that copies its host buffer to a device buffer through a
\* stream, and uses both while it does
AsyncCopyNext ==
    \/ CopyStreamNew
    \/ DestinationFromSlice
    \/ AsyncCopyFromPinned
    \/ PinnedWrite
    \/ PinnedScopeExit
    \/ DestinationRead
    \/ DestinationWrite
    \/ DeviceBufferScopeExit
    \/ StreamSynchronize
    \/ StreamSynchronizeReturn
    \/ DeviceStarts
    \/ DeviceTransfers
    \/ DeviceFinishes

AsyncCopySpec == Init /\ [][AsyncCopyNext]_vars

---------------------------------------------------------------------------
(* The slicing program: it takes device slices apart, by split_at, by       *)
(* chunks and by their mutable counterparts.                               *)

\* longest device slice the slicing program takes apart
MaxElems == 5

\* DeviceSlice::from_raw_parts(data, len): the slices the program works on
SliceInputs ==
    {DeviceSlice(Addr(a), n, esz) : a \in Allocs, n \in 0..MaxElems, esz \in ElemSizes}

\* a slicing call: it leaves the device alone and returns views
Sliced(op, self, size, r) ==
    /\ Running /\ last = NoLast
    /\ last' = [NoLast EXCEPT !.op = op, !.slice = self, !.size = size,
                              !.views = r.views, !.panic = r.panic]
    /\ status' = AfterPanic(r.panic)
    /\ UNCHANGED <<heap, dmem, ops, received, locals, raw, pc, pinned>>

SplitAt ==
    \E self \in SliceInputs, mid \in 0..(MaxElems + 1) :
        Sliced("DeviceSlice::split_at", self, mid, DeviceSlice_split_at(self, mid))

SplitAtMut ==
    \E self \in SliceInputs, mid \in 0..(MaxElems + 1) :
        Sliced("DeviceSlice::split_at_mut", self, mid, DeviceSlice_split_at_mut(self, mid))

\* slice.chunks(chunk_size).collect()
Chunked(op, self, chunk_size) ==
    LET r == DeviceSlice_chunks(self, chunk_size)
    IN  Sliced(op, self, chunk_size,
               [views |-> IF r.panic THEN <<>> ELSE Collect(r.iter), panic |-> r.panic])

Chunks ==
    \E self \in SliceInputs, chunk_size \in 0..(MaxElems + 1) :
        Chunked("DeviceSlice::chunks", self, chunk_size)

ChunksMut ==
    \E self \in SliceInputs, chunk_size \in 0..(MaxElems + 1) :
        Chunked("DeviceSlice::chunks_mut", self, chunk_size)

SliceNext == SplitAt \/ SplitAtMut \/ Chunks \/ ChunksMut

SliceSpec == Init /\ [][SliceNext]_vars

---------------------------------------------------------------------------
(* The viewing program: it builds DeviceBuffers from host data and copies   *)
(* to and from parts of them, which it gets by indexing with a range.      *)

\* a copy through buf[range]: the view is taken, and if that did not panic
\* the copy is made through it
Viewed(op, c, form, a, b, src, r) ==
    /\ Running
    /\ heap' = Settle(r.w.heap)
    /\ dmem' = r.w.mem
    /\ last' = [NoLast EXCEPT
                  !.op = op, !.arg = c, !.slice = deref(c), !.range = <<form, a, b>>,
                  !.views = DeviceSlice_index(deref(c), form, a, b).views,
                  !.res = r.res, !.calls = r.w.calls, !.panic = r.panic,
                  !.src = src, !.host = r.host]
    /\ status' = AfterPanic(r.panic)
    /\ UNCHANGED <<ops, received, locals, raw, pc, pinned>>

\* the ranges the program indexes with: each form with the bounds it has,
\* up to one past the longest buffer
RangeInputs ==
    {x \in RangeForms \X (0..(MaxLen + 1)) \X (0..(MaxLen + 1)) :
        /\ x[1] \in {"RangeFull", "RangeTo", "RangeToInclusive"} => x[2] = 0
        /\ x[1] \in {"RangeFull", "RangeFrom"} => x[3] = 0}

\* the host data the program writes through a view: n elements
Pattern(n, esz) == Ramp(n, IF esz = 0 THEN 0 ELSE 2, esz)

\* buf[range].copy_to(&mut out), with an out as long as the view
IndexCopyTo ==
    \E c \in Held, x \in RangeInputs, oc \in OutcomeSeqs(1) :
        /\ c.kind = "DeviceBuffer"
        /\ LET form == x[1]
               a == x[2]
               b == x[3]
               v == DeviceSlice_index(deref(c), form, a, b)
           IN  Viewed("DeviceSlice::index copy_to", c, form, a, b, <<>>,
                      IF v.panic
                      THEN Copied(W0, Unwound, <<>>, TRUE)
                      ELSE DeviceSlice_copy_to(W0, v.views[1],
                                               [i \in 1..v.views[1].len |-> 0], oc))

\* buf[range].copy_from(&val), with a val as long as the view
IndexCopyFrom ==
    \E c \in Held, x \in RangeInputs, oc \in OutcomeSeqs(1) :
        /\ c.kind = "DeviceBuffer"
        /\ LET form == x[1]
               a == x[2]
               b == x[3]
               v == DeviceSlice_index(deref(c), form, a, b)
           IN  IF v.panic
               THEN Viewed("DeviceSlice::index_mut copy_from", c, form, a, b, <<>>,
                           Copied(W0, Unwound, <<>>, TRUE))
               ELSE \E val \in {Pattern(v.views[1].len, c.esz)} :
                       /\ Viewed("DeviceSlice::index_mut copy_from", c, form, a, b, val,
                                 DeviceSlice_copy_from(W0, v.views[1], val, oc))

\* the program's one buffer is made before anything else is allocated
ViewBufferFromSlice ==
    (\A a \in Allocs : heap[a].st = "unalloc") /\ DeviceBufferFromSlice

ViewNext == ViewBufferFromSlice \/ IndexCopyTo \/ IndexCopyFrom

ViewSpec == Init /\ [][ViewNext]_vars

---------------------------------------------------------------------------
(* Properties.  Vocabulary first: the native calls of a library call, the  *)
(* owners of an allocation, the names of the operations.                   *)

AllocFns == {"cudaMalloc", "cudaMallocManaged", "cudaMallocHost"}

FreeFns == {"cudaFree", "cudaFreeHost", "cuStreamDestroy"}

\* positions of the native allocation / free calls the last call made
AllocCalls == {k \in DOMAIN last.calls : last.calls[k].fn \in AllocFns}

FreeCalls == {k \in DOMAIN last.calls : last.calls[k].fn \in FreeFns}

\* a native call of the last call failed
NativeFailed == \E k \in DOMAIN last.calls : last.calls[k].res # "Success"

\* number of containers the host variables hold that point at allocation a
Owners(a) ==
    BagCardinality([c \in {d \in Held : PtrOf(d) = Addr(a)} |-> locals[c]])

MemSpaces == {"device", "unified", "locked"}

IntoOps == {"DeviceBox::into_device", "UnifiedBox::into_unified", "LockedBox::into_raw"}

MallocOps == {"cuda_malloc", "cuda_malloc_unified", "cuda_malloc_locked"}

\* the last call released a container: explicitly, or at scope exit
Released == last.op \in DropOps \cup {"scope_exit"}

\* the byte size the last call's arguments ask for, as a number
Bytes == last.size * last.esz

\* C1: through any sequence of constructions, moves, copies, into_* / from_*
\* pairs, explicit drops and scope exits of the five memory containers,
\* with native calls succeeding or failing arbitrarily, a live allocation
\* is owned by at most one container, no allocation is handed to the native
\* free again after it was freed, and no container holds a freed pointer.
C1_Ownership ==
    \A a \in Allocs :
        heap[a].space \in MemSpaces =>
            /\ heap[a].st = "live" => Owners(a) <= 1
            /\ ~heap[a].refreed
            /\ heap[a].st = "freed" => Owners(a) = 0

\* C1 happens: a box that re-adopted a pointer was dropped explicitly and
\* its allocation freed, while another live allocation has its one owner
C1_Witness ==
    /\ last.op = "DeviceBox::drop" /\ last.readopted /\ last.res = "Ok"
    /\ heap[AllocOf(last.arg.ptr)].st = "freed"
    /\ \E b \in Allocs : heap[b].st = "live" /\ Owners(b) = 1

\* C2: into_device / into_unified / into_raw run no destructor and make no
\* native free: the allocation stays live and the pointer is the box's;
\* when a box that re-adopted such a pointer is dropped, the allocation
\* has been freed exactly once.
C2_IntoThenFromFreesOnce ==
    /\ last.op \in IntoOps =>
          /\ last.calls = <<>> /\ ~last.panic
          /\ last.ptr = last.arg.ptr
          /\ IsAlloc(last.ptr) => heap[AllocOf(last.ptr)].st = "live"
    /\ (Released /\ last.readopted /\ last.res = "Ok" /\ ~last.panic) =>
          /\ heap[AllocOf(last.arg.ptr)].st = "freed"
          /\ ~heap[AllocOf(last.arg.ptr)].refreed
          /\ Cardinality(FreeCalls) = 1
          /\ \A k \in FreeCalls :
                last.calls[k].arg = last.arg.ptr /\ last.calls[k].res = "Success"

\* C2 happens: a LockedBox that re-adopted a pointer taken out by into_raw
\* went out of scope and its allocation is freed
C2_Witness ==
    /\ last.op = "scope_exit" /\ last.arg.kind = "LockedBox"
    /\ last.readopted /\ ~last.panic
    /\ heap[AllocOf(last.arg.ptr)].st = "freed"

\* C3: an explicit drop whose native free fails returns the error with a
\* container of the same pointer and capacity, which the caller holds; the
\* allocation is live and owned by it alone; nothing panics; and a drop of
\* the container handed back calls the native free on its pointer again.
C3_FailedDropReturnsContainer ==
    /\ (last.op \in DropOps /\ (NativeFailed \/ last.res # "Ok")) =>
          /\ NativeFailed /\ last.res # "Ok" /\ ~last.panic
          /\ last.res = toResult(last.calls[1].res)
          /\ last.out = last.arg
          /\ last.out \in Held
          /\ IsAlloc(PtrOf(last.out))
          /\ heap[AllocOf(PtrOf(last.out))].st = "live"
          /\ Owners(AllocOf(PtrOf(last.out))) = 1
    /\ (Released /\ last.retry) =>
          /\ Len(last.calls) = 1
          /\ last.calls[1].fn \in FreeFns
          /\ last.calls[1].arg = PtrOf(last.arg)

\* C3 happens: a DeviceBuffer handed back by a failed drop was dropped
\* again, and the free failed again
C3_Witness ==
    /\ last.op = "DeviceBuffer::drop" /\ last.retry
    /\ last.res # "Ok" /\ last.out = last.arg

\* C4: when a container or a Stream goes out of scope and its native free
\* or destroy fails, the destructor panics; it returns normally only when
\* it had nothing to release or the release succeeded.
C4_DestructorPanics ==
    last.op = "scope_exit" =>
        /\ NativeFailed => last.panic
        /\ (~last.panic /\ IsAlloc(PtrOf(last.arg))) =>
              /\ heap[AllocOf(PtrOf(last.arg))].st = "freed"
              /\ ~NativeFailed /\ Cardinality(FreeCalls) = 1

\* C4 happens: a Stream with a live handle went out of scope, the destroy
\* call failed and the destructor panicked
C4_Witness ==
    /\ last.op = "scope_exit" /\ last.arg.kind = "Stream"
    /\ IsAlloc(last.arg.inner) /\ NativeFailed /\ last.panic
    /\ heap[AllocOf(last.arg.inner)].st = "live"

ZstBoxConstructors ==
    {"DeviceBox::new", "DeviceBox::uninitialized", "UnifiedBox::new",
     "UnifiedBox::uninitialized", "LockedBox::uninitialized"}

\* C5: for a zero-sized T the box constructors make no native call and
\* return a box holding null, and releasing a box of a zero-sized T, at
\* scope exit or by explicit drop, makes no native call either.
C5_ZeroSizedBox ==
    /\ (last.op \in ZstBoxConstructors /\ last.esz = 0) =>
          /\ last.res = "Ok" /\ last.calls = <<>>
          /\ IsBox(last.out) /\ is_null(last.out.ptr)
    /\ (Released /\ IsBox(last.arg) /\ last.arg.esz = 0) =>
          /\ is_null(last.arg.ptr)
          /\ last.calls = <<>> /\ ~last.panic
          /\ last.res = "Ok" /\ last.out = NoContainer

\* C5 happens: a DeviceBox of a zero-sized type was dropped explicitly
C5_Witness ==
    /\ last.op = "DeviceBox::drop" /\ last.arg.kind = "DeviceBox"
    /\ last.arg.esz = 0 /\ last.res = "Ok"

BufferUninitialized == {"DeviceBuffer::uninitialized", "LockedBuffer::uninitialized"}

\* C6: DeviceBuffer::uninitialized and LockedBuffer::uninitialized with
\* size 0 or a zero-sized T make no native call and return a buffer of
\* length size whose pointer is the dangling sentinel (not null, no
\* allocation); releasing such a buffer makes no native call.
C6_EmptyBuffer ==
    /\ (last.op \in BufferUninitialized /\ (last.size = 0 \/ last.esz = 0)) =>
          /\ last.res = "Ok" /\ last.calls = <<>>
          /\ IsBuffer(last.out)
          /\ ~is_null(last.out.buf) /\ ~IsAlloc(last.out.buf)
          /\ last.out.buf = dangling(last.esz)
          /\ last.out.cap = last.size
    /\ (Released /\ IsBuffer(last.arg) /\ (last.arg.cap = 0 \/ last.arg.esz = 0)) =>
          /\ last.calls = <<>> /\ ~last.panic
          /\ last.res = "Ok" /\ last.out = NoContainer

\* C6 happens: a LockedBuffer of many elements of a zero-sized type went
\* out of scope
C6_Witness ==
    /\ last.op = "scope_exit" /\ last.arg.kind = "LockedBuffer"
    /\ last.arg.esz = 0 /\ last.arg.cap = UsizeMax - 1
    /\ ~is_null(last.arg.buf)

\* C7: the three raw allocation functions return InvalidValue and make no
\* native call when count * size_of::<T>() is zero.
C7_ZeroBytesInvalidValue ==
    (last.op \in MallocOps /\ Bytes = 0) =>
        /\ last.res = "InvalidValue"
        /\ last.calls = <<>>
        /\ is_null(last.ptr)

\* C7 happens: cuda_malloc_unified was asked for no elements of u64
C7_Witness ==
    /\ last.op = "cuda_malloc_unified" /\ last.size = 0 /\ last.esz = 8
    /\ last.res = "InvalidValue"

\* C8: on overflow of count * size_of::<T>() the three raw allocation
\* functions fail with an error of their own, raised before any native
\* call (it is InvalidValue, as for a byte count of zero), and make no
\* native call; the native allocator is only ever asked for the exact byte
\* count, never a wrapped one.
C8_OverflowLocalError ==
    /\ (last.op \in MallocOps /\ Bytes > UsizeMax) =>
          /\ last.res = "InvalidValue"
          /\ last.calls = <<>>
          /\ is_null(last.ptr)
    /\ last.op \in MallocOps =>
          \A k \in AllocCalls : last.calls[k].arg = Bytes

\* C8 happens: cuda_malloc was asked for usize::MAX - 1 elements of u64
C8_Witness ==
    /\ last.op = "cuda_malloc" /\ last.size = UsizeMax - 1 /\ last.esz = 8
    /\ last.res = "InvalidValue" /\ last.calls = <<>>

BufferConstructors ==
    {"DeviceBuffer::uninitialized", "DeviceBuffer::zeroed",
     "LockedBuffer::new", "LockedBuffer::uninitialized"}

\* C9 as stated: the buffer constructors return InvalidMemoryAllocation
\* whenever size * size_of::<T>() overflows usize.
C9_AsStated ==
    (last.op \in BufferConstructors /\ Bytes > UsizeMax) =>
        last.res = "InvalidMemoryAllocation"

FreeOps == {"cuda_free", "cuda_free_locked"}

\* C10: cuda_free and cuda_free_locked refuse a null pointer with
\* InvalidValue and no native call; for any other pointer they make exactly
\* one native free, of that pointer, and return its result as it is.
C10_Free ==
    last.op \in FreeOps =>
        /\ is_null(last.ptr) => (last.res = "InvalidValue" /\ last.calls = <<>>)
        /\ ~is_null(last.ptr) =>
              /\ Len(last.calls) = 1
              /\ last.calls[1].fn \in FreeFns
              /\ last.calls[1].arg = last.ptr
              /\ last.res = toResult(last.calls[1].res)

\* C10 happens: cuda_free_locked was given a live pointer and the native
\* free failed
C10_Witness ==
    /\ last.op = "cuda_free_locked" /\ ~is_null(last.ptr)
    /\ last.res = "LaunchFailure"
    /\ heap[AllocOf(last.ptr)].st = "live"

\* the entry points that return a CudaResult or a DropResult
FallibleOps ==
    {"DeviceBox::new", "DeviceBox::uninitialized", "DeviceBuffer::uninitialized",
     "DeviceBuffer::zeroed", "UnifiedBox::new", "UnifiedBox::uninitialized",
     "LockedBox::new", "LockedBox::uninitialized", "LockedBuffer::new",
     "LockedBuffer::uninitialized", "Stream::new", "DeviceBox::copy_from"}
        \cup DropOps \cup MallocOps \cup FreeOps

\* C11 as stated: no fallible entry point panics when native calls fail;
\* each returns the error as a result value.
C11_AsStated ==
    last.op \in FallibleOps => ~last.panic

CopyFns == {"cuMemcpyHtoD", "cuMemcpyDtoH", "cuMemcpyDtoD"}

\* positions of the native copy calls the last call made
CopyCalls == {k \in DOMAIN last.calls : last.calls[k].fn \in CopyFns}

\* the error of the first native call of the last call that failed
FirstFailure ==
    LET k == Min({j \in DOMAIN last.calls : last.calls[j].res # "Success"})
    IN  toResult(last.calls[k].res)

\* C12 as stated: DeviceBox::new and DeviceBuffer::from_slice allocate
\* first and copy second; no copy is attempted when the allocation fails,
\* Ok(container) is returned only if both steps succeeded, and an error from
\* either step is returned to the caller with no container handed out.
C12_AsStated ==
    last.op \in {"DeviceBox::new", "DeviceBuffer::from_slice"} =>
        /\ \A k \in CopyCalls :
              \E j \in AllocCalls : j < k /\ last.calls[j].res = "Success"
        /\ last.res = "Ok" => (~NativeFailed /\ last.out # NoContainer)
        /\ NativeFailed =>
              /\ ~last.panic
              /\ last.res = FirstFailure
              /\ last.out = NoContainer

\* the elements container c holds in device memory
Contents(c) ==
    IF IsAlloc(PtrOf(c))
    THEN Load([mem |-> dmem], AllocOf(PtrOf(c)), c.cap)
    ELSE [i \in 1..c.cap |-> 0]

CopyToHostOps == {"DeviceBox::copy_to", "DeviceSlice::copy_to"}

\* C13: after a successful copy of host data into a DeviceBox or a
\* DeviceBuffer (copy_from, new, from_slice) the container holds that data
\* element by element, and a successful copy_to that follows leaves the
\* host destination equal to it, whatever the destination held before.
C13_RoundTrip ==
    /\ (last.op \in HostToDeviceOps /\ last.res = "Ok" /\ ~last.panic) =>
          LET c == IF last.arg = NoContainer THEN last.out ELSE last.arg
          IN  Contents(c) = last.src
    /\ (last.op \in CopyToHostOps /\ last.res = "Ok" /\ ~last.panic
            /\ last.written # NoData) =>
          last.host = last.written

\* C13 happens: a DeviceBuffer was given <<2, 3>> and then copied to a host
\* slice that held <<1, 2>>
C13_Witness ==
    /\ last.op = "DeviceSlice::copy_to" /\ last.res = "Ok"
    /\ last.written = <<2, 3>> /\ last.dst = <<1, 2>>
    /\ last.host = <<2, 3>>

SliceCopyOps ==
    {"DeviceSlice::copy_from", "DeviceSlice::copy_to",
     "DeviceSlice::copy_from_slice", "DeviceSlice::copy_to_slice"}

\* the element count of the other side of the last copy
OtherLen ==
    CASE last.op \in {"DeviceSlice::copy_from", "DeviceBox::copy_from"} -> Len(last.src)
      [] last.op \in CopyToHostOps -> Len(last.dst)
      [] OTHER -> last.peer.cap

Mismatch == OtherLen # last.arg.cap

\* C14: a slice or buffer copy_from or copy_to between sides of different
\* element counts panics before any native copy is issued, host to device,
\* device to host and device to device in either direction, and leaves the
\* device contents and the host destination as they were.
C14_MismatchPanics ==
    [][(last'.op \in SliceCopyOps /\ Mismatch') =>
          /\ last'.panic /\ last'.calls = <<>>
          /\ last'.host = last'.dst
          /\ dmem' = dmem]_vars

\* C14 happens: a DeviceBuffer of two elements was copied to a DeviceBuffer
\* of one element and the call panicked
C14_Witness ==
    /\ last.op = "DeviceSlice::copy_to_slice"
    /\ last.arg.cap = 2 /\ last.peer.cap = 1 /\ last.arg.esz = 8
    /\ last.panic /\ status = "panicked"

CopyOps ==
    SliceCopyOps \cup {"DeviceBox::copy_from", "DeviceBox::copy_to",
                       "DeviceBox::copy_from_box", "DeviceBox::copy_to_box"}

\* the payload of the last copy is zero bytes
ZeroPayload == last.arg.esz * last.arg.cap = 0

\* C15: a copy_from or copy_to of a zero-byte payload (a zero-sized element
\* type, or zero-length slices) returns Ok(()) without any native call and
\* changes neither the device contents, the containers nor the host
\* destination.
C15_ZeroPayloadNoOp ==
    [][(last'.op \in CopyOps /\ ZeroPayload' /\ ~Mismatch') =>
          /\ last'.res = "Ok" /\ ~last'.panic /\ last'.calls = <<>>
          /\ last'.host = last'.dst
          /\ dmem' = dmem /\ heap' = heap /\ locals' = locals]_vars

\* C15 happens: a zero-length DeviceBuffer of u64 was copied to another one
C15_Witness ==
    /\ last.op = "DeviceSlice::copy_to_slice"
    /\ last.arg.cap = 0 /\ last.peer.cap = 0 /\ last.arg.esz = 8
    /\ last.res = "Ok"

\* operations i and j were enqueued through the same Stream, i first
SameStream(i, j) == i < j /\ ops[i].on = ops[j].on

\* C16: the callbacks added to one stream reach the host's receiver in the
\* order they were added, each at most once, however the device and the
\* host interleave.
C16_CallbackOrder ==
    \A p, q \in DOMAIN received :
        p < q =>
            /\ received[p] # received[q]
            /\ ops[received[p]].on = ops[received[q]].on => received[p] < received[q]

\* C16 happens: three callbacks were added to one stream and the receiver
\* has seen all of them
C16_Witness ==
    /\ received = <<1, 2, 3>>
    /\ \A i \in 1..3 : ops[i].kind = "callback" /\ ops[i].on = ops[1].on

\* C17: operations enqueued through one Stream are totally ordered and do
\* not overlap: a later one has not begun unless every earlier one is
\* completed.
C17_NoOverlap ==
    \A i, j \in DOMAIN ops :
        (SameStream(i, j) /\ ops[j].st # "queued") => ops[i].st = "done"

\* C17 happens: a kernel or copy, a callback and a kernel were enqueued on
\* one stream; the first is completed, the second runs, the third waits
C17_Witness ==
    /\ Len(ops) = 3
    /\ \A i \in 1..3 : ops[i].on = ops[1].on
    /\ ops[1].kind = "work" /\ ops[1].st = "done"
    /\ ops[2].kind = "callback" /\ ops[2].st = "running"
    /\ ops[3].kind = "work" /\ ops[3].st = "queued"
    /\ last.op = "Stream::launch"

\* C18: when Stream::synchronize has returned Ok, every operation enqueued
\* through that stream before the call is completed.
C18_SynchronizeWaits ==
    (last.op = "Stream::synchronize" /\ last.res = "Ok") =>
        \A i \in DOMAIN ops : ops[i].on = last.arg.inner => ops[i].st = "done"

\* C18 happens: synchronize returned Ok on a stream that was given two
\* operations
C18_Witness ==
    /\ last.op = "Stream::synchronize" /\ last.res = "Ok"
    /\ Len(last.calls) = 1
    /\ Cardinality({i \in DOMAIN ops : ops[i].on = last.arg.inner}) >= 2

EnqueueOps == {"Stream::launch", "Stream::add_callback", "async_copy_from"}

\* C19: a kernel launch, a callback add and an asynchronous copy return
\* without waiting: the host thread is not held, the operation enqueued is
\* still queued and no other operation has advanced; and what the device
\* does reaches the host only through a delivered callback (or the return
\* of synchronize).
C19_EnqueueReturnsAtOnce ==
    [][/\ (Len(ops') > Len(ops) \/ (last' # last /\ last'.op \in EnqueueOps)) =>
             /\ pc' = Idle
             /\ \A i \in DOMAIN ops : ops'[i] = ops[i]
             /\ received' = received
             /\ IF last'.res = "Ok"
                THEN Len(ops') = Len(ops) + 1 /\ ops'[Len(ops')].st = "queued"
                ELSE ops' = ops
       /\ (Len(ops') = Len(ops) /\ ops' # ops) =>
             /\ last' = last /\ pc' = pc
             /\ received' # received =>
                   \E i \in DOMAIN ops : ops[i].kind = "callback" /\ ops'[i].st = "done"
                                             /\ ops[i].st = "running"]_vars

\* C19 happens: a third operation was enqueued on a stream whose first two
\* operations have not been taken up
C19_Witness ==
    /\ last.op = "async_copy_from" /\ last.res = "Ok" /\ pc = Idle
    /\ Len(ops) = 3
    /\ \A i \in 1..3 : ops[i].on = last.arg.inner /\ ops[i].st = "queued"

\* C20: operations of different streams are not ordered: the device can
\* take up a queued operation as soon as the earlier operations enqueued
\* through its own Stream are completed, whatever other streams hold; and
\* synchronize on a stream, when its native call does not fail, waits for
\* the uncompleted operations enqueued through that stream and for nothing
\* else.
C20_StreamsIndependent ==
    /\ \A i \in DOMAIN ops :
          (ops[i].st = "queued" /\ \A j \in DOMAIN ops : SameStream(j, i) => ops[j].st = "done")
              => ENABLED DeviceStart(i)
    /\ \A c \in Held :
          c.kind = "Stream" =>
              Stream_synchronize(W0, c, <<"Success">>).wait
                  = {i \in DOMAIN ops : ops[i].on = c.inner /\ ops[i].st # "done"}

\* C20 happens: the operation enqueued second, on another stream, is
\* completed and synchronize on its stream has returned, while the one
\* enqueued first is still running
C20_Witness ==
    /\ Len(ops) >= 2
    /\ ops[1].on # ops[2].on
    /\ ops[1].st = "running" /\ ops[2].st = "done"
    /\ last.op = "Stream::synchronize" /\ last.res = "Ok"
    /\ last.arg.inner = ops[2].on

\* the number the closure of callback i captured: its rank among the
\* callbacks the program added
C21_Captured(i) == <<Cardinality({j \in Callbacks(ops) : j <= i})>>

C21_Invoked(i) ==
    /\ i \in Callbacks(ops)
    /\ ops[i].st = "done"
    /\ Cardinality({p \in DOMAIN received : received[p] = i}) = 1

Streams(bag) == {c \in BagToSet(bag) : c.kind = "Stream"}

DestroyCalls(calls) == {i \in DOMAIN calls : calls[i].fn = "cuStreamDestroy"}

C23_Lifecycle ==
    /\ \A c \in Streams(locals) :
          /\ ~is_null(c.inner) /\ IsAlloc(c.inner) /\ CopiesIn(c, locals) = 1
          /\ heap[AllocOf(c.inner)].st = "live"
    /\ \A c \in Streams(locals') \ Streams(locals) :
          /\ heap[AllocOf(c.inner)].st = "unalloc"
          /\ last'.op = "Stream::new" /\ last'.res = "Ok" /\ last'.out = c
    /\ \A a \in Allocs :
          heap[a].space = "stream" /\ heap[a].st = "freed" =>
              heap'[a].st = "freed" /\ ~heap'[a].refreed
    /\ last' # last =>
          /\ Cardinality(DestroyCalls(last'.calls)) <= 1
          /\ \A i \in DestroyCalls(last'.calls) :
                /\ last'.op = "scope_exit" /\ last'.arg \in Streams(locals)
                /\ last'.calls[i].arg = last'.arg.inner
                /\ last'.arg \notin Streams(locals')
          /\ last'.op = "scope_exit" /\ last'.arg.kind = "Stream" =>
                DestroyCalls(last'.calls) # {}
          /\ last'.op = "Stream::new" /\ last'.res # "Ok" =>
                DestroyCalls(last'.calls) = {} /\ Streams(locals') = Streams(locals)

C23_StreamLifecycle == [][C23_Lifecycle]_vars

\* the native destroy call failed: the destructor panicked, the stream is
\* gone from the program and its handle is still live in the driver
C23_Witness ==
    /\ last.op = "scope_exit" /\ last.arg.kind = "Stream" /\ last.panic
    /\ DestroyCalls(last.calls) # {}
    /\ last.arg \notin Streams(locals)
    /\ heap[AllocOf(last.arg.inner)].st = "live"

\* C24: when the native destroy fails, Stream::drop returns the error with
\* a stream that is still live: it holds the handle it held, the handle is
\* live in the driver, a kernel can be enqueued on it, it can be
\* synchronized, and a further Stream::drop of it destroys it.
C24_Usable(stream) ==
    /\ ~is_null(stream.inner)
    /\ heap[AllocOf(stream.inner)].st = "live"
    /\ LET l == Stream_launch(W0, stream, <<>>)
       IN  l.res = "Ok" /\ Len(l.w.ops) = Len(ops) + 1
              /\ l.w.ops[Len(l.w.ops)].at = stream.inner
    /\ Stream_synchronize(W0, stream, <<>>).res # "InvalidHandle"
    /\ LET d == Stream_drop(W0, stream, <<>>)
       IN  d.res = "Ok" /\ d.w.heap[AllocOf(stream.inner)].st = "freed"

C24_FailedDropReturnsStream ==
    last.op = "Stream::drop" =>
        /\ ~last.panic
        /\ last.res # "Ok" =>
              /\ last.out = last.arg /\ last.out \in Held
              /\ C24_Usable(last.out)
        /\ last.res = "Ok" =>
              /\ last.out = NoContainer /\ last.arg \notin Held
              /\ heap[AllocOf(last.arg.inner)].st = "freed"

\* a Stream::drop failed on a stream that has work pending
C24_Witness ==
    /\ last.op = "Stream::drop" /\ last.res = "LaunchFailure"
    /\ last.out \in Held
    /\ \E i \in DOMAIN ops : ops[i].on = last.out.inner /\ ops[i].st # "done"

\* the copies enqueued through the Stream of handle h
C25_Copies(h) == {i \in DOMAIN ops : ops[i].kind = "copy" /\ ops[i].on = h}

C25_Destination(i) == Load(W0, AllocOf(ops[i].env.dst.ptr), ops[i].env.dst.len)

C25_Arrived ==
    last.op = "Stream::synchronize" /\ last.res = "Ok" =>
        \A i \in C25_Copies(last.arg.inner) :
            ~ops[i].touched /\ Mapped(W0, ops[i].env.dst.ptr) =>
                C25_Destination(i) = ops[i].env.src

C25_ReturnsBeforeTransfer ==
    last'.op = "DeviceSlice::async_copy_from" /\ last' # last =>
        /\ dmem' = dmem /\ pc' = Idle
        /\ \A i \in DOMAIN ops : ops'[i] = ops[i]
        /\ last'.res = "Ok" =>
              /\ Len(ops') = Len(ops) + 1
              /\ ops'[Len(ops')].st = "queued" /\ ops'[Len(ops')].moved = {}
              /\ ops'[Len(ops')].env = CopyEnv(deref(last'.arg), pinned)

C25_Uses == {"write source", "free source", "DeviceSlice::copy_to", "DeviceSlice::copy_from"}

\* a use of the source or the destination does not wait for the copies:
\* the device is where it was with each of them, and a read returns the
\* destination as the device has left it so far
C25_UseDoesNotWait ==
    last'.op \in C25_Uses /\ last' # last =>
        /\ pc' = Idle
        /\ \A i \in DOMAIN ops : ops'[i].st = ops[i].st /\ ops'[i].moved = ops[i].moved
        /\ \A i \in DOMAIN ops :
              (last'.op = "DeviceSlice::copy_to" /\ last'.res = "Ok" /\ ops[i].kind = "copy"
                  /\ ops[i].env.dst = deref(last'.arg)) =>
                  \A k \in DOMAIN last'.host :
                      last'.host[k] = dmem[AllocOf(ops[i].env.dst.ptr)][k]

\* C25: an asynchronous copy returns with nothing transferred and with the
\* host thread free.  If the caller does not write or free the source and
\* does not read, write or free the destination, then once synchronize on
\* the stream the copy was given to has returned Ok the destination holds
\* the source's elements as they were at the call.  A use of the source or
\* the destination before that does not wait for the copy.
C25_AsyncCopy ==
    /\ []C25_Arrived
    /\ [][C25_ReturnsBeforeTransfer]_vars
    /\ [][C25_UseDoesNotWait]_vars

\* C25 happens: the caller read the destination while the device was
\* transferring a copy whose call had returned Ok; the read did not wait,
\* and it returned one element of the source and, for the other elements,
\* what the destination held before, which is not the source's
C25_Witness ==
    /\ last.op = "DeviceSlice::copy_to" /\ last.res = "Ok" /\ pc = Idle
    /\ \E i \in DOMAIN ops :
          /\ ops[i].kind = "copy" /\ ops[i].st = "running"
          /\ ops[i].env.dst = deref(last.arg)
          /\ Cardinality(ops[i].moved) = 1
          /\ \A k \in DOMAIN last.host :
                (last.host[k] = ops[i].env.src[k]) <=> k \in ops[i].moved

\* the addresses of the elements a view looks at (none for a zero-sized
\* element type, whose elements take no memory)
Cells(v) == {v.ptr + k * v.esz : k \in 0..(IF v.esz = 0 THEN -1 ELSE v.len - 1)}

\* the sum of the lengths of views
RECURSIVE TotalLen(_)
TotalLen(views) ==
    IF views = <<>> THEN 0 ELSE views[1].len + TotalLen(Tail(views))

\* the views lie behind one another, from the start of the slice to its
\* end: none overlaps another, and together they cover every element once
Partition(self, views) ==
    /\ TotalLen(views) = self.len
    /\ \A i \in DOMAIN views :
          /\ views[i].esz = self.esz
          /\ views[i].ptr = self.ptr + self.esz * TotalLen(SubSeq(views, 1, i - 1))
    /\ \A i, j \in DOMAIN views : i # j => Cells(views[i]) \cap Cells(views[j]) = {}
    /\ UNION {Cells(views[i]) : i \in DOMAIN views} = Cells(self)

SplitOps == {"DeviceSlice::split_at", "DeviceSlice::split_at_mut"}

\* C26: split_at(mid) and split_at_mut(mid) on a slice of length n panic
\* when mid > n; otherwise they return a left view of the elements [0, mid)
\* and a right view of the elements [mid, n), which do not overlap and whose
\* lengths add up to n.
C26_SplitAt ==
    last.op \in SplitOps =>
        LET n == last.slice.len
            mid == last.size
        IN  /\ last.panic <=> mid > n
            /\ ~last.panic =>
                  /\ Len(last.views) = 2
                  /\ last.views[1].len = mid /\ last.views[2].len = n - mid
                  /\ last.views[1].ptr = last.slice.ptr
                  /\ Partition(last.slice, last.views)

\* a slice of u64 was split inside: both halves have elements
C26_Witness ==
    /\ last.op = "DeviceSlice::split_at_mut" /\ ~last.panic
    /\ last.slice.esz = 8 /\ last.slice.len = MaxElems
    /\ last.size = 2 /\ last.views[2].len = MaxElems - 2

ChunkOps == {"DeviceSlice::chunks", "DeviceSlice::chunks_mut"}

\* ceil(n / c)
CeilDiv(n, c) == (n + c - 1) \div c

\* C27: chunks(c) and chunks_mut(c) on a slice of length n panic when c is
\* 0; otherwise they yield ceil(n / c) views in increasing address order,
\* each of length c except the last, which has the n - c * (ceil(n / c) - 1)
\* elements that are left; the views do not overlap and cover every element
\* once.  A slice of 5 elements in chunks of 2 gives lengths 2, 2, 1.
C27_Chunks ==
    last.op \in ChunkOps =>
        LET n == last.slice.len
            c == last.size
            k == Len(last.views)
        IN  /\ last.panic <=> c = 0
            /\ ~last.panic =>
                  /\ k = CeilDiv(n, c)
                  /\ \A i \in 1..(k - 1) : last.views[i].len = c
                  /\ k > 0 => last.views[k].len = n - c * (k - 1)
                  /\ \A i \in 1..(k - 1) :
                        last.slice.esz # 0 => last.views[i].ptr < last.views[i + 1].ptr
                  /\ Partition(last.slice, last.views)
                  /\ n = 5 /\ c = 2 =>
                        [i \in 1..k |-> last.views[i].len] = <<2, 2, 1>>

\* a slice of 5 elements was taken in chunks of 2
C27_Witness ==
    /\ last.op = "DeviceSlice::chunks" /\ ~last.panic
    /\ last.slice.len = 5 /\ last.size = 2 /\ last.slice.esz = 8
    /\ Len(last.views) = 3 /\ last.views[3].len = 1

\* the elements of a device allocation, as far as any was written
Elements(mem, a) == mem[a]

\* C28: indexing a DeviceBuffer or DeviceSlice with a range gives a view of
\* the same device memory.  The view of a..b has b - a elements; a copy_to
\* from it hands the host the elements a..b of the buffer; a copy_from into
\* it changes those elements of the buffer and nothing else on the device.
\* A range that does not lie in the buffer panics.
C28_Range == RangeOf(last'.range[1], last'.range[2], last'.range[3], last'.slice.len)

C28_View ==
    (last' # last /\ last'.op \in {"DeviceSlice::index copy_to",
                                    "DeviceSlice::index_mut copy_from"}) =>
        LET lo == C28_Range[1]
            hi == C28_Range[2]
            c == last'.arg
            before == Contents(c)
            after == IF IsAlloc(PtrOf(c))
                     THEN Load([mem |-> dmem'], AllocOf(PtrOf(c)), c.cap)
                     ELSE [i \in 1..c.cap |-> 0]
        IN  /\ last'.panic <=> (lo > hi \/ hi > c.cap)
            /\ last'.panic => dmem' = dmem
            /\ ~last'.panic =>
                  /\ Len(last'.views) = 1 /\ last'.views[1].len = hi - lo
                  /\ last'.range[1] = "Range" =>
                        last'.views[1].len = last'.range[3] - last'.range[2]
            /\ (~last'.panic /\ last'.res = "Ok"
                    /\ last'.op = "DeviceSlice::index copy_to") =>
                  /\ last'.host = [i \in 1..(hi - lo) |-> before[lo + i]]
                  /\ dmem' = dmem
            /\ (~last'.panic /\ last'.res = "Ok"
                    /\ last'.op = "DeviceSlice::index_mut copy_from") =>
                  /\ \A i \in 1..c.cap :
                        after[i] = IF c.esz # 0 /\ lo < i /\ i <= hi
                                   THEN last'.src[i - lo] ELSE before[i]
                  /\ \A x \in Allocs :
                        x # AllocOf(PtrOf(c)) => Elements(dmem', x) = Elements(dmem, x)

C28_IndexIsView == [][C28_View]_vars

\* the second element of a buffer of two was read through buf[1..2], after
\* it was written through a view
C28_Witness ==
    /\ last.op = "DeviceSlice::index copy_to" /\ last.res = "Ok" /\ ~last.panic
    /\ last.range = <<"Range", 1, 2>> /\ last.arg.esz = 8
    /\ last.host = <<Contents(last.arg)[2]>> /\ last.host # <<0>>
    /\ Contents(last.arg)[1] # Contents(last.arg)[2] - 1

\* the host variables that hold allocation a
Holders(a) ==
    BagCardinality([c \in {d \in Held : PtrOf(d) = Addr(a)} |-> CopiesIn(c, locals)])

\* C29 as stated: no operation of a container duplicates it, so at no time
\* do two containers hold the same allocation pointer.  (UBox derives Clone,
\* and the clone of a UBox holds the pointer of the original.)
C29_AsStated == \A a \in Allocs : Holders(a) <= 1

\* C30 as stated: UBox::into_raw makes no native call and leaves the
\* allocation of the box live; the box that re-adopts the pointer with
\* UBox::from_raw frees it, once, when it is dropped, so that nothing is
\* freed a second time.  (UBox::into_raw lets the box it was given go out of
\* scope, which frees the allocation.)
C30_AsStated ==
    /\ (last.op = "UBox::into_raw" /\ IsAlloc(last.ptr)) =>
          /\ last.calls = <<>> /\ ~last.panic
          /\ heap[AllocOf(last.ptr)].st = "live"
    /\ (last.op = "scope_exit" /\ last.arg.kind = "UBox" /\ last.readopted
            /\ Holders(AllocOf(last.arg.ptr)) = 0 /\ last.calls # <<>>
            /\ last.calls[1].res # "LaunchFailure") =>
          /\ ~last.panic
          /\ heap[AllocOf(last.arg.ptr)].st = "freed"
          /\ ~heap[AllocOf(last.arg.ptr)].refreed

\* C31 as stated: == and < of two unified boxes are == and < of the values
\* they hold, whatever their allocations: boxes holding equal values are
\* equal, boxes holding different values are unequal, and the box holding
\* the smaller value orders below the other.  (UnifiedBox forwards to the
\* values; UBox derives the comparisons, which compare its pointer field.)
C31_AsStated ==
    (last.op = "eq lt" /\ IsAlloc(last.arg.ptr) /\ IsAlloc(last.peer.ptr)) =>
        /\ status # "aborted"
        /\ LET x == Contents(last.arg)[1]
               y == Contents(last.peer)[1]
           IN  /\ last.cmp.eq <=> x = y
               /\ last.cmp.lt <=> x < y

\* the comparisons of UnifiedBox alone forward to the values
C31_UnifiedBoxForwards ==
    \/ last.op = "eq lt" /\ last.arg.kind = "UBox"
    \/ C31_AsStated

\* two UnifiedBoxes of a zero-sized type hold null, and comparing them
\* builds references from null: the comparison ends the process or returns
C31_NullBoxes ==
    (last.op = "eq lt" /\ last.arg.kind = "UnifiedBox" /\ is_null(last.arg.ptr)) =>
        \/ status = "aborted" /\ last.cmp = <<>>
        \/ status # "aborted" /\ last.cmp = [eq |-> TRUE, lt |-> FALSE]

SymbolOps == {"Module::get_global", "Symbol::copy_from", "Symbol::copy_to", "scope_exit"}

\* C32: no copy_from, copy_to or scope exit of a Symbol issues a native
\* free, and the global stays resident; a successful copy_from(v) leaves v
\* in the global and a successful copy_to hands back what the global holds,
\* so that a copy_to after a copy_from(v) yields v.
C32_Step ==
    last' # last =>
        /\ last'.op \in SymbolOps
        /\ \A i \in DOMAIN last'.calls : last'.calls[i].fn \notin FreeFns
        /\ \A a \in Allocs : heap[a].st = "live" => heap'[a].st = "live"
        /\ (last'.op = "Symbol::copy_from" /\ last'.res = "Ok") =>
              \A c \in Held : c.ptr = last'.arg.ptr /\ c.esz # 0 =>
                  Load([mem |-> dmem'], AllocOf(c.ptr), 1) = last'.src
        /\ (last'.op = "Symbol::copy_to" /\ last'.res = "Ok" /\ last'.arg.esz # 0) =>
              last'.host = Contents(last'.arg)
        /\ last'.op # "Symbol::copy_from" \/ last'.res # "Ok" => dmem' = dmem
        /\ (last'.op = "Symbol::copy_to" /\ last'.res = "Ok"
                /\ last.op = "Symbol::copy_from" /\ last.res = "Ok"
                /\ last.arg = last'.arg) =>
              last'.host = last.src

C32_SymbolNeverFrees == [][C32_Step]_vars

\* a value written to the global through one Symbol was read back after
\* another Symbol of the same global had gone out of scope
C32_Witness ==
    /\ last.op = "Symbol::copy_to" /\ last.res = "Ok" /\ last.host = <<2>>
    /\ BagCardinality(locals) = 1
    /\ \E a \in Allocs : heap[a].space = "global" /\ heap[a].st = "live"

\* C33 as stated: DeviceBuffer::uninitialized(size) and DeviceBuffer::zeroed(size)
\* with a byte size size * size_of::<T>() that is neither zero nor overflows
\* ask the native allocator for exactly that many bytes, in one call, and
\* return an error only if that call or the memset after it failed.
\* (Both pass the byte size to cuda_malloc::<T>, which takes a count of
\* elements and multiplies by size_of::<T>() again.)
C33_AsStated ==
    (/\ last.op \in {"DeviceBuffer::uninitialized", "DeviceBuffer::zeroed"}
     /\ last.size * last.esz # 0
     /\ last.size * last.esz <= UsizeMax) =>
        /\ last.calls # <<>>
        /\ last.calls[1].fn = "cudaMalloc"
        /\ last.calls[1].arg = last.size * last.esz
        /\ last.res # "Ok" => \E k \in DOMAIN last.calls : last.calls[k].res # "Success"

\* C34 as stated: a constructor that returns an error after its native
\* allocation succeeded has freed that allocation before it returns.
\* (DeviceBuffer::zeroed holds the new allocation in a plain DevicePointer
\* when the memset fails, so the `?` drops nothing.)
C34_AsStated ==
    (/\ last.op \in {"DeviceBox::new", "DeviceBox::zeroed", "DeviceBuffer::from_slice",
                     "DeviceBuffer::zeroed"}
     /\ last.res # "Ok" /\ ~last.panic) =>
        \A k \in DOMAIN last.calls :
            (last.calls[k].fn = "cudaMalloc" /\ last.calls[k].res = "Success") =>
                \E j \in DOMAIN last.calls :
                    /\ j > k
                    /\ last.calls[j].fn = "cudaFree" /\ last.calls[j].res = "Success"

\* the native destroy calls the last call made
Destroys(fn) == {k \in DOMAIN last.calls : last.calls[k].fn = fn}

\* C35 as stated: ArrayObject::drop(array) makes one native destroy call for
\* the handle; when that succeeds it returns Ok(()) and no second destroy
\* call is made for the handle, and when it fails the array it returns holds
\* the handle, which is not destroyed.  (The function does not forget
\* `array` after a successful destroy, so the destructor runs on it.)
C35_AsStated ==
    last.op = "ArrayObject::drop" =>
        /\ Cardinality(Destroys("cuArrayDestroy")) = 1
        /\ ~last.panic
        /\ last.res = "Ok" => heap[AllocOf(last.arg.inner)].st = "freed"
                              /\ ~heap[AllocOf(last.arg.inner)].refreed
        /\ last.res # "Ok" => last.out = last.arg
                              /\ heap[AllocOf(last.arg.inner)].st = "live"

\* C36 as stated: Event::drop(event) and the destructor of Event make at
\* most one native destroy call for a handle and none for a null handle;
\* a failed Event::drop returns the event with its handle, undestroyed.
\* (On failure the local event, whose handle was replaced by null, goes out
\* of scope, and the destructor gives the null handle to the destroy call.)
C36_AsStated ==
    /\ \A k \in Destroys("cuEventDestroy") : last.calls[k].arg # Null
    /\ \A a \in Allocs : heap[a].space = "event" => ~heap[a].refreed
    /\ last.op = "Event::drop" =>
          /\ Cardinality(Destroys("cuEventDestroy")) <= 1
          /\ ~last.panic
          /\ last.res # "Ok" => last.out = last.arg
                                /\ heap[AllocOf(last.arg.inner)].st = "live"

CopyToDeviceOps == {"DeviceBox::copy_to_box", "DeviceSlice::index copy_to_slice"}

CopyFromDeviceOps == {"DeviceBox::copy_from_box", "DeviceSlice::index_mut copy_from_slice"}

\* the slice a recorded device-to-device copy was called on, and the slice
\* it was given
SelfView(l) ==
    IF l.views # <<>> THEN l.views[1] ELSE DeviceSlice(l.arg.ptr, 1, l.arg.esz)

ValView(l) ==
    IF l.views # <<>> THEN l.views[2] ELSE DeviceSlice(l.peer.ptr, 1, l.peer.esz)

\* where a recorded copy read and where it wrote
SourceOf(l) == IF l.op \in CopyToDeviceOps THEN SelfView(l) ELSE ValView(l)

DestinationOf(l) == IF l.op \in CopyToDeviceOps THEN ValView(l) ELSE SelfView(l)

\* what view v holds in device memory m
Held_in(m, v) ==
    IF v.esz = 0 \/ ~Inside(v.ptr) THEN [i \in 1..v.len |-> 0]
    ELSE LoadFrom([mem |-> m], v.ptr, v.len, v.esz)

\* C37: for two DeviceBoxes, or two DeviceSlices of equal length, a and b,
\* a.copy_to(&mut b) and b.copy_from(&a) do the same: the calls have the
\* same result and leave the same device memory, in which b holds what a
\* held and nothing else has changed; and after x.copy_to(&mut y) and then
\* z.copy_from(&y), z holds what x holds.
C37_Same ==
    \A oc \in OutcomeSeqs(1) :
        /\ \A c, d \in Held :
              (c.kind = "DeviceBox" /\ d.kind = "DeviceBox" /\ Other(c, d)) =>
                  DeviceBox_copy_to_box(W0, c, d, oc) = DeviceBox_copy_from_box(W0, d, c, oc)
        /\ \A x \in Parts :
              DeviceSlice_copy_to_slice(W0, Part(x[1], x[2]), Part(x[3], x[4]), oc)
                  = DeviceSlice_copy_from_slice(W0, Part(x[3], x[4]), Part(x[1], x[2]), oc)

C37_Step ==
    (last' # last /\ last'.op \in CopyToDeviceOps \cup CopyFromDeviceOps
        /\ last'.res = "Ok" /\ ~last'.panic) =>
        LET src == SourceOf(last')
            dst == DestinationOf(last')
        IN  /\ Held_in(dmem', dst) = Held_in(dmem, src)
            /\ Held_in(dmem', src) = Held_in(dmem, src)
            /\ \A a \in Allocs : \A i \in DOMAIN dmem[a] :
                  (dst.esz = 0 \/ a # AllocOf(dst.ptr) \/ i # Offset(dst.ptr, dst.esz) + 1) =>
                      (i \in DOMAIN dmem'[a] /\ dmem'[a][i] = dmem[a][i])
            /\ (last.op \in CopyToDeviceOps /\ last.res = "Ok" /\ ~last.panic
                    /\ last'.op \in CopyFromDeviceOps
                    /\ src = DestinationOf(last)) =>
                  Held_in(dmem', dst) = Held_in(dmem', SourceOf(last))

C37_DeviceCopies == []C37_Same /\ [][C37_Step]_vars

\* the chain: x.copy_to(&mut y), then z.copy_from(&y) with a third part z,
\* which held something else before
C37_Witness ==
    /\ last.op = "DeviceSlice::index_mut copy_from_slice" /\ last.res = "Ok"
    /\ last.esz # 0
    /\ \E x \in Parts : \E k \in 0..(MaxLen - 1) :
          /\ k < x[1].cap
          /\ Part(x[3], x[4]) = SourceOf(last)
          /\ Part(x[1], k) = DestinationOf(last)
          /\ Part(x[1], x[2]) # DestinationOf(last)
          /\ Held_in(dmem, Part(x[1], x[2])) = Held_in(dmem, DestinationOf(last))
          /\ Held_in(dmem, Part(x[1], x[2])) = Held_in(dmem, SourceOf(last))
          /\ Held_in(dmem, Part(x[1], x[2])) # <<Uninit>>
\* C38: launch! with a module and a function name looks the function up
\* first: the first native call is cuModuleGetFunction for that name; if it
\* fails, its error is the result, there is no other native call and the
\* work of the streams is as it was; if it succeeds, the one other native
\* call is cuLaunchKernel on the stream, its result is the result, and a
\* successful one adds exactly that kernel to the stream's work.
Launches(l) == {i \in DOMAIN l.calls : l.calls[i].fn = "cuLaunchKernel"}

C38_Step ==
    (last'.op = "launch!" /\ (last' # last \/ Len(ops') # Len(ops))) =>
        LET cs == last'.calls
            stream == last'.arg
        IN  /\ Len(cs) >= 1
            /\ cs[1] = NativeCall("cuModuleGetFunction", last'.name, cs[1].res)
            /\ IF cs[1].res # "Success"
               THEN /\ last'.res = cs[1].res
                    /\ Len(cs) = 1
                    /\ ops' = ops
               ELSE /\ Len(cs) = 2
                    /\ Launches(last') = {2}
                    /\ cs[2].arg = stream.inner
                    /\ last'.res = toResult(cs[2].res)
                    /\ ops' = IF cs[2].res = "Success"
                              THEN Append(ops, Op(stream.inner, stream.inner, "work", NoEnv))
                              ELSE ops

C38_LookupThenLaunch == [][C38_Step]_vars

\* a lookup that failed after a launch by name that was enqueued
C38_Witness ==
    /\ last.op = "launch!"
    /\ last.res = "NotFound"
    /\ Launches(last) = {}
    /\ \E i \in DOMAIN ops : ops[i].kind = "work"

====
